---- MODULE Spec2Model ----
(***************************************************************************)
(* Model of the meeting-recordings aggregation of the Zoom recording       *)
(* explorer backend (_worker.js): handleGetMeetingRecordings with its      *)
(* bounded fan-out over the enumerated users, and the host-identity cache  *)
(* (getHostInfo, attachHostsToRecordings).                                 *)
(*                                                                         *)
(* JavaScript runs the handler on one thread: code between two awaits is   *)
(* one atomic step.  Every action below is one such step; the awaits on a  *)
(* network call (fetch, res.text(), res.json()) are the points where the   *)
(* steps of different workers and lookups interleave.                      *)
(***************************************************************************)
EXTENDS Integers, Sequences, FiniteSets, Bags, TLC

(* ---------------------------------------------------------------------- *)
(* Bounds of the model and constants of the program                       *)
(* ---------------------------------------------------------------------- *)

\* Largest number of users the directory returns.
MaxUsers == 6

\* Largest number of attachHostsToRecordings calls in the host-cache runs.
MaxCalls == 2

\* Longest meetings list handed to attachHostsToRecordings in those runs.
MaxMeetings == 3

\* Largest number of active users the upstream directory holds in the runs of
\* a whole request, and in the debug-mode runs of the fan-out.
MaxDirectory == 4

\* Number of users on a full page of the directory listing in those runs (the
\* handler asks for pages of 300).
PageLen == 2

\* Largest number of getZoomAccessToken calls in the token-cache runs, and
\* how often the clock advances in them.
MaxTokenCalls == 3
MaxTicks == 2

\* Longest list of enriched meetings handed to the filters in the filter runs.
MaxFiltered == 2

\* const concurrency = 5;
concurrency == 5

\* now < cachedTokenExp - 30_000
ExpiryMargin == 30000

\* (data.expires_in || 3600)
DefaultExpiresIn == 3600

Min(a, b) == IF a < b THEN a ELSE b

Range(s) == {s[k] : k \in 1..Len(s)}

\* The largest number of pages of a listing that ends below the page caps.
MaxHeld == 3

\* The largest number of records in the table of a bulk delete.
MaxBulk == 3

\* const MAX_PHONE_PAGES = 20; const MAX_CC_PAGES = 50;  (safety caps)
MAX_PHONE_PAGES == 20
MAX_CC_PAGES == 50

(* ---------------------------------------------------------------------- *)
(* Upstream data (the test double the handler talks to)                   *)
(* ---------------------------------------------------------------------- *)

\* The i-th user of the directory listing.  Users with an even index have
\* neither first_name nor last_name.
User(i) ==
    [id |-> <<"u", i>>, email |-> <<"mail", i>>,
     name |-> IF i % 2 = 1 THEN <<"name", i>> ELSE <<>>]

\* The `meetings` array of the recordings page of user i (when the upstream
\* answers 2xx with a JSON body): two meetings, none, one, twice the same one.
Recordings(i) ==
    CASE i % 5 = 1 -> << [uuid |-> <<i, 1>>, host_id |-> "h1"],
                         [uuid |-> <<i, 2>>, host_id |-> "h1"] >>
      [] i % 5 = 2 -> << >>
      [] i % 5 = 3 -> << [uuid |-> <<i, 1>>, host_id |-> ""] >>
      [] i % 5 = 4 -> << [uuid |-> <<i, 1>>, host_id |-> "h1"],
                         [uuid |-> <<i, 1>>, host_id |-> "h1"] >>
      [] OTHER     -> << [uuid |-> <<i, 1>>, host_id |-> "h1"] >>

\* How the recordings request of user i fails when it fails: a rejected
\* fetch, a non-2xx status, a 2xx body that is no JSON, or a body that cannot
\* be used (res.text() rejects, or it parses to null).
FailureOf(i) ==
    CASE i % 4 = 1 -> "network"
      [] i % 4 = 2 -> "status"
      [] i % 4 = 3 -> "non-json"
      [] OTHER     -> "body"

HostIds == {"h1", "h2"}

\* The user record the upstream holds for a host id.
HostData(h) ==
    IF h = "h1" THEN [first_name |-> "Ann", last_name |-> "Lee", email |-> "ann@x"]
                ELSE [first_name |-> "", last_name |-> "", email |-> ""]

VARIABLES
    debug,           \* url.searchParams.get("debug")
    users,           \* const users = []  (after the directory loop)
    hpc,             \* position of handleGetMeetingRecordings
    idx,             \* let idx = 0  (the shared cursor)
    nworkers,        \* number of worker() calls made by the handler
    wpc,             \* position of each worker
    wi,              \* const i  of each worker
    claimed,         \* how often each index was handed out by idx++
    served,          \* what the upstream answered to each user's request
    meetings,        \* const meetings = []
    errors,          \* const errors = []
    perUserSummary,  \* const perUserSummary = []
    requested,       \* the /users/{id}/recordings requests issued, in their order
    hostCache,       \* const hostCache = new Map()
    hcalls,          \* the getHostInfo calls of the running attach call
    hostFetches,     \* upstream /users/{hostId} requests issued, per host id
    apc,             \* position of attachHostsToRecordings
    ainput,          \* its `meetings` argument
    aresult,         \* its result
    ncalls,          \* attachHostsToRecordings calls made so far
    cache0,          \* the keys of hostCache when the running call began
    callFetches,     \* upstream /users/{hostId} requests issued by that call
    failedHosts,     \* the host ids whose upstream lookup has failed
    response,        \* the Response the handler returned
    ownerFilter,     \* (url.searchParams.get("owner_email") || "").toLowerCase()
    topicFilter,     \* (url.searchParams.get("topic") || "").toLowerCase()
    q,               \* (url.searchParams.get("q") || "").toLowerCase()
    params,          \* url.searchParams: from, to, owner_email, topic, q as given
    cachedToken,     \* let cachedToken = null
    cachedTokenExp,  \* let cachedTokenExp = 0
    now,             \* what Date.now() returns
    ticks,           \* how often the clock has advanced
    tcalls,          \* the getZoomAccessToken calls waiting for the network
    tokenCalls,      \* getZoomAccessToken calls made so far
    tokenFetches,    \* credential exchanges issued so far
    tlast,           \* the facts of the getZoomAccessToken call that ended last
    token,           \* const token  of the handler
    directory,       \* number of active users the upstream directory holds
    nextPageToken,   \* let nextPageToken = ""
    pageRequests,    \* the next_page_token of each /users request issued
    raised,          \* the exception that reached the handler's try block
    route,           \* the delete or download handler the router has called
    req,             \* its request: the method and body, or the `url` parameter
    ppc,             \* position of that handler
    zoomRes,         \* const zoomRes  of that handler
    sent,            \* the upstream requests that handler has issued
    fetchAll,        \* the client's running fetchAll...Recordings call: its
                     \* allRecs, nextToken and loops, and the requests it made
    bulk             \* the client's handleBulkDelete call: the table and the
                     \* selection it was called on, toDelete, i, success, failed,
                     \* the deleting and deleteProgress state, the requests sent

vars == <<debug, users, hpc, idx, nworkers, wpc, wi, claimed, served, meetings, errors,
          perUserSummary, requested, hostCache, hcalls, hostFetches, apc, ainput, aresult,
          ncalls, cache0, callFetches, failedHosts, response,
          ownerFilter, topicFilter, q, params, cachedToken, cachedTokenExp, now, ticks,
          tcalls, tokenCalls, tokenFetches, tlast, token, directory, nextPageToken,
          pageRequests, raised, route, req, ppc, zoomRes, sent, fetchAll, bulk>>

fanoutVars == <<idx, nworkers, wpc, wi, claimed, served, meetings, errors,
                perUserSummary, requested>>
hostVars == <<hostCache, hcalls, hostFetches, apc, ainput, aresult, ncalls, cache0,
              callFetches, failedHosts>>
filterVars == <<ownerFilter, topicFilter, q, params>>
tokenVars == <<cachedToken, cachedTokenExp, now, ticks, tcalls, tokenCalls,
               tokenFetches, tlast, token>>
dirVars == <<directory, nextPageToken, pageRequests>>
proxyVars == <<route, req, ppc, zoomRes, sent>>

\* The state of the handlers and of the client beside the recordings handler.
otherVars == <<proxyVars, fetchAll, bulk>>

\* The state of a request before the fan-out, and of the module's token cache.
reqVars == <<filterVars, tokenVars, dirVars, raised, otherVars>>

\* What the fan-out and the enrichment work on.
workVars == <<debug, users, fanoutVars, hostVars>>

\* The workers the handler has started.
Workers == 1..Len(wpc)

\* Faulty variant: the debug mode is not looked at.
DebugModeIgnored == FALSE

\* if (debug === "users")
DebugUsers == debug = "users"

\* Faulty variant of the second test.
DebugModeSkipped == FALSE

\* if (debug === "user-recordings")
DebugUserRecordings == debug = "user-recordings"

(* ---------------------------------------------------------------------- *)
(* The fan-out: worker() and the shared cursor                            *)
(* ---------------------------------------------------------------------- *)

\* Faulty variant: the field is set whatever the list holds.
SetAlways(body, f, list) ==
    [x \in DOMAIN body \cup {f} |-> IF x = f THEN list ELSE body[x]]

\* if (errors.length) respBody._errors = errors;  and
\* errors: errors.length ? errors : undefined  (JSON.stringify leaves an
\* undefined field out);  if (from) u.searchParams.set("from", from):  the
\* object carries the field only for a list, or a string, that is not empty.
SetIfAny(body, f, list) ==
    IF Len(list) > 0
    THEN [x \in DOMAIN body \cup {f} |-> IF x = f THEN list ELSE body[x]]
    ELSE body

\* buildRecordingsUrl(userId): /users/{userId}/recordings?page_size=50 and
\* the date range of the request, as far as it is given.
BuildRecordingsUrl(userId) ==
    SetIfAny(SetIfAny([user |-> userId, page_size |-> 50], "from", params.from),
             "to", params.to)

\* The body of the recordings page of user i: its meetings and, for a user
\* with more recordings in the range than the page holds, the token of the
\* next page.
RecordingsBody(i) ==
    [meetings |-> Recordings(i),
     next_page_token |-> IF i % 3 = 1 THEN <<"more", i>> ELSE <<>>]

\* Faulty variant: the worker asks for the next page while there is one.
FollowUpIfToken(data) == data.next_page_token # <<>>

\* Whether the worker sends a further request for the same user after a
\* page: the loop turn ends with the for loop over data.meetings, whatever
\* data.next_page_token holds.
FollowUp(data) == FALSE

\* Faulty variant: one worker per user, whatever `concurrency`.
NumWorkersAll(n) == n

\* Math.min(concurrency, users.length): the number of worker() calls.
NumWorkers(n) == Min(concurrency, n)

\* Faulty variant: `const i = idx` without the increment.
NextCursorStuck(i) == i

\* `idx++`: the cursor after a claim.
NextCursor(i) == i + 1

\* const ownerName = `${first_name} ${last_name}`.trim() || user.email || "Unknown"
OwnerName(user) == IF user.name # <<>> THEN user.name ELSE user.email

\* The object meetings.push() receives for upstream meeting m of `user`.
Tagged(m, user) ==
    [uuid |-> m.uuid, host_id |-> m.host_id,
     owner_email |-> user.email, owner_name |-> OwnerName(user)]

\* Faulty variant: only the first meeting of the page is pushed.
PushFirstOnly(list, ms, user) ==
    IF ms = <<>> THEN list ELSE Append(list, Tagged(Head(ms), user))

\* Faulty variant: each worker stores its page as the list, so that the page
\* that arrives last is what stays.
PushOverwrites(list, ms, user) == [k \in 1..Len(ms) |-> Tagged(ms[k], user)]

\* Faulty variant: the page is walked from its end.
RECURSIVE PushReversed(_, _, _)
PushReversed(list, ms, user) ==
    IF ms = <<>> THEN list
    ELSE Append(PushReversed(list, Tail(ms), user), Tagged(Head(ms), user))

\* for (const m of userMeetings) meetings.push({...})
RECURSIVE PushAll(_, _, _)
PushAll(list, ms, user) ==
    IF ms = <<>> THEN list
    ELSE PushAll(Append(list, Tagged(Head(ms), user)), Tail(ms), user)

\* The part of the fan-out state a worker changes when it is at the top of
\* its loop.
LoopState == [idx |-> idx, wpc |-> wpc, wi |-> wi, claimed |-> claimed,
              requested |-> requested]

\* `while (idx < users.length) { const i = idx++; ... await fetch(...)`:
\* worker w claims the next index and issues its fetch, or leaves the loop.
EnterLoop(st, w) ==
    IF st.idx < Len(users)
    THEN [idx     |-> NextCursor(st.idx),
          wpc     |-> [st.wpc EXCEPT ![w] = "fetch"],
          wi      |-> [st.wi EXCEPT ![w] = st.idx],
          claimed |-> [st.claimed EXCEPT ![st.idx] = @ + 1],
          requested |-> Append(st.requested,
                               BuildRecordingsUrl(users[st.idx + 1].id))]
    ELSE [st EXCEPT !.wpc[w] = "done"]

\* Array.from({length: n}, () => worker()): the n calls run one after the
\* other, each up to its first await.
RECURSIVE StartWorkers(_, _, _)
StartWorkers(st, w, n) ==
    IF w > n THEN st
    ELSE LET called == [st EXCEPT !.wpc = Append(@, "called"), !.wi = Append(@, 0)]
         IN  StartWorkers(EnterLoop(called, w), w + 1, n)

\* Faulty variant: `user` is a variable the workers share, set at each claim.
UserOfLastClaim(w) == users[idx]

\* users[i] of worker w (idx counts from 0).
UserOf(w) == users[wi[w] + 1]

\* Worker w is back at the top of its loop after finishing a user.
Continue(w) ==
    LET st == EnterLoop(LoopState, w) IN
    /\ idx' = st.idx
    /\ wpc' = st.wpc
    /\ wi' = st.wi
    /\ claimed' = st.claimed
    /\ requested' = st.requested

ErrorEntry(user, status, what) ==
    [userId |-> user.id, userEmail |-> user.email, status |-> status, what |-> what]

\* The recordings request of worker w can fail in way `how`.
MayFail(w, how) == FailureOf(wi[w] + 1) = how

\* Faulty variant: no try/catch around the loop body.
WorkerCatchesNoThrow(how) == how \in {"status", "non-json"}

\* Faulty variant: the status check alone, no try block.
WorkerCatchesOnlyStatus(how) == how = "status"

\* Whether the worker handles failure `how` itself: the status check, the
\* inner try/catch around JSON.parse, and the try/catch around the whole loop
\* body handle every one.
WorkerCatches(how) == how \in {"status", "non-json", "network", "body"}

\* Faulty variant: `return` where the code has `continue`.
AfterFailureReturn(st, w) == [st EXCEPT !.wpc[w] = "done"]

\* `continue`, or the end of the catch block: the worker goes on with its loop.
AfterFailure(st, w) == EnterLoop(st, w)

\* { error: true, status: 500, message } of the handler's own catch block
ErrorResponse == [kind |-> "error", status |-> 500]

\* The request of worker w failed in way `how`: errors.push(entry) and on with
\* the loop.  (A failure the worker did not handle would reject its promise
\* and with it Promise.all, and the handler's catch block would answer 500.)
Fails(w, how, entry) ==
    /\ hpc = "fanout"
    /\ MayFail(w, how)
    /\ served' = [served EXCEPT ![wi[w] + 1] = how]
    /\ IF WorkerCatches(how)
       THEN /\ errors' = Append(errors, entry)
            /\ LET st == AfterFailure(LoopState, w) IN
               /\ idx' = st.idx
               /\ wpc' = st.wpc
               /\ wi' = st.wi
               /\ claimed' = st.claimed
               /\ requested' = st.requested
            /\ UNCHANGED <<hpc, response>>
       ELSE /\ wpc' = [wpc EXCEPT ![w] = "threw"]
            /\ hpc' = "responded"
            /\ response' = ErrorResponse
            /\ UNCHANGED <<errors, idx, wi, claimed, requested>>
    /\ UNCHANGED reqVars
    /\ UNCHANGED <<debug, users, nworkers, meetings, perUserSummary>>
    /\ UNCHANGED hostVars

\* The handler reaches the fan-out: await Promise.all(Array.from(..., worker)).
StartFanout ==
    /\ hpc = "enumerated"
    /\ ~DebugUsers
    /\ Len(users) > 0
    /\ LET n  == NumWorkers(Len(users))
           st == StartWorkers(LoopState, 1, n) IN
       /\ nworkers' = n
       /\ idx' = st.idx
       /\ wpc' = st.wpc
       /\ wi' = st.wi
       /\ claimed' = st.claimed
       /\ requested' = st.requested
    /\ hpc' = "fanout"
    /\ UNCHANGED reqVars
    /\ UNCHANGED <<debug, users, served, meetings, errors, perUserSummary, response>>
    /\ UNCHANGED hostVars

\* await fetch(buildRecordingsUrl(user.id)) rejects: the catch block.
FetchThrows(w) ==
    /\ wpc[w] = "fetch"
    /\ Fails(w, "network", ErrorEntry(UserOf(w), 0, "error"))

\* await fetch(...) resolves with a response; the worker awaits res.text().
FetchResolves(w) ==
    /\ hpc = "fanout"
    /\ wpc[w] = "fetch"
    /\ wpc' = [wpc EXCEPT ![w] = "text"]
    /\ UNCHANGED reqVars
    /\ UNCHANGED <<debug, users, hpc, idx, nworkers, wi, claimed, served, meetings,
                   errors, perUserSummary, requested, response>>
    /\ UNCHANGED hostVars

\* if (!res.ok) { errors.push({... status: res.status, message: text}); continue; }
RecordingsNotOk(w) ==
    /\ wpc[w] = "text"
    /\ Fails(w, "status", ErrorEntry(UserOf(w), 500, "status"))

\* JSON.parse(text) throws: errors.push({... "Non-JSON response ..."}); continue;
RecordingsNonJson(w) ==
    /\ wpc[w] = "text"
    /\ Fails(w, "non-json", ErrorEntry(UserOf(w), 200, "non-json"))

\* res.text() rejects, or the body parses to null (data.meetings throws):
\* the catch block.
RecordingsThrows(w) ==
    /\ wpc[w] = "text"
    /\ Fails(w, "body", ErrorEntry(UserOf(w), 0, "error"))

\* 2xx and a JSON body: perUserSummary.push(...), one meetings.push per
\* meeting, and on to the next user.  (A worker that paged would send the
\* request again, with the next_page_token of the body.)
RecordingsOk(w) ==
    /\ hpc = "fanout"
    /\ wpc[w] = "text"
    /\ served' = [served EXCEPT ![wi[w] + 1] = "ok"]
    /\ LET user == UserOf(w)
           data == RecordingsBody(wi[w] + 1)
           userMeetings == data.meetings IN
       /\ perUserSummary' = Append(perUserSummary,
              [userId |-> user.id, userEmail |-> user.email,
               meetingCount |-> Len(userMeetings)])
       /\ meetings' = PushAll(meetings, userMeetings, user)
       /\ IF FollowUp(data)
          THEN /\ requested' = Append(requested,
                      SetIfAny(BuildRecordingsUrl(user.id), "next_page_token",
                               data.next_page_token))
               /\ wpc' = [wpc EXCEPT ![w] = "fetch"]
               /\ UNCHANGED <<idx, wi, claimed>>
          ELSE Continue(w)
    /\ UNCHANGED reqVars
    /\ UNCHANGED <<debug, users, hpc, nworkers, errors, response>>
    /\ UNCHANGED hostVars

\* Recordings fetches issued and not yet read to the end.
InFlight == Cardinality({w \in Workers : wpc[w] \in {"fetch", "text"}})

AllWorkersDone == \A w \in Workers : wpc[w] = "done"

(* ---------------------------------------------------------------------- *)
(* The host cache: getHostInfo and attachHostsToRecordings                *)
(* ---------------------------------------------------------------------- *)

\* const fallback = { name: "Unknown", email: "" }
Fallback == [name |-> "Unknown", email |-> ""]

\* `${data.first_name ?? ""} ${data.last_name ?? ""}`.trim() || "Unknown"
FullName(data) ==
    IF data.first_name = "" /\ data.last_name = "" THEN "Unknown"
    ELSE IF data.last_name = "" THEN data.first_name
    ELSE IF data.first_name = "" THEN data.last_name
    ELSE data.first_name \o " " \o data.last_name

\* const host = { name, email }  built from the parsed body
HostOf(data) == [name |-> FullName(data), email |-> data.email]

\* Faulty variant: the map is rebuilt from the one entry.
MapReplace(m, k, v) == [x \in {k} |-> v]

\* hostCache.set(k, v)
MapSet(m, k, v) == [x \in DOMAIN m \cup {k} |-> IF x = k THEN v ELSE m[x]]

\* Faulty variant: the fallback is returned but not cached.
StoreOnlyFound(cache, id, host) ==
    IF host = Fallback THEN cache ELSE MapSet(cache, id, host)

\* hostCache.set(hostId, host) at the end of a lookup, be `host` the
\* looked-up identity or the fallback.
StoreResult(cache, id, host) == MapSet(cache, id, host)

\* Faulty variant: getHostInfo without its try/catch.
GetHostInfoRethrows == FALSE

\* Whether getHostInfo handles a rejected fetch or res.json() itself: its
\* try/catch spans both.
GetHostInfoCatches == TRUE

\* Faulty variant: getHostInfo without its `if (!hostId)`.
ResolvedOnlyCached(cache, id) == id \in DOMAIN cache

\* Faulty variant: getHostInfo without its cache lookup.
ResolvedNoCache(cache, id) == id = ""

\* getHostInfo returns without a request: `if (!hostId)` or the cache hit.
Resolved(cache, id) == id = "" \/ id \in DOMAIN cache

\* What getHostInfo returns in that case.
Cached(cache, id) == IF id = "" THEN Fallback ELSE cache[id]

\* Faulty variant: the output record holds the two host fields only.
WithHostOnly(m, host) == [hostName |-> host.name, hostEmail |-> host.email]

\* { ...m, hostName: host.name, hostEmail: host.email }
WithHost(m, host) ==
    [f \in DOMAIN m \cup {"hostName", "hostEmail"} |->
        IF f = "hostName" THEN host.name
        ELSE IF f = "hostEmail" THEN host.email
        ELSE m[f]]

\* [...new Set(meetings.map(m => m.host_id).filter(Boolean))]
UniqueHostIds(ms) == {ms[k].host_id : k \in 1..Len(ms)} \ {""}

\* Faulty variant: no pre-warm.
PrewarmNoIds(ms) == {}

\* The ids the pre-warm calls getHostInfo for.
PrewarmIds(ms) == UniqueHostIds(ms)

\* A getHostInfo call that is waiting for the network.
HostCall(id, origin, mi) == [host |-> id, origin |-> origin, mi |-> mi, pc |-> "fetch"]

\* One more request to /users/{id} for each id of the set.
CountFetches(ids) == [h \in HostIds |-> hostFetches[h] + IF h \in ids THEN 1 ELSE 0]

\* attachHostsToRecordings(ms, token) up to its first await: the early return
\* for an empty list, or the pre-warm calls, each up to its fetch.
AttachStart(ms) ==
    /\ ainput' = ms
    /\ ncalls' = ncalls + 1
    /\ cache0' = DOMAIN hostCache
    /\ UNCHANGED <<hostCache, failedHosts>>
    /\ IF Len(ms) = 0
       THEN /\ apc' = "returned"
            /\ aresult' = <<>>
            /\ hcalls' = {}
            /\ callFetches' = 0
            /\ UNCHANGED hostFetches
       ELSE LET misses == {id \in PrewarmIds(ms) : ~Resolved(hostCache, id)} IN
            /\ apc' = "prewarm"
            /\ aresult' = <<>>
            /\ hcalls' = {HostCall(id, "prewarm", 0) : id \in misses}
            /\ hostFetches' = CountFetches(misses)
            /\ callFetches' = Cardinality(misses)

\* A getHostInfo call ends with value `host`: hostCache.set(hostId, host) and
\* return host.  A call of the attach pass hands it to its meeting, and the
\* Promise.all of the attach pass resolves with the last of them.
FinishCall(c, host) ==
    /\ hostCache' = StoreResult(hostCache, c.host, host)
    /\ hcalls' = hcalls \ {c}
    /\ aresult' = IF c.origin = "attach"
                  THEN [aresult EXCEPT ![c.mi] = WithHost(ainput[c.mi], host)]
                  ELSE aresult
    /\ apc' = IF c.origin = "attach" /\ hcalls = {c} THEN "returned" ELSE apc
    /\ UNCHANGED <<hostFetches, ainput, ncalls, cache0, callFetches>>

\* A rejected await inside getHostInfo: the catch block stores and returns the
\* fallback.  (Uncaught, it would reject the Promise.all of
\* attachHostsToRecordings.)
CallThrows(c) ==
    /\ failedHosts' = failedHosts \cup {c.host}
    /\ IF GetHostInfoCatches
       THEN FinishCall(c, Fallback)
       ELSE /\ apc' = "threw"
            /\ hcalls' = hcalls \ {c}
            /\ UNCHANGED <<hostCache, aresult, hostFetches, ainput, ncalls, cache0,
                           callFetches>>
    /\ UNCHANGED reqVars
    /\ UNCHANGED <<debug, users, hpc, response>>
    /\ UNCHANGED fanoutVars

\* await fetch(.../users/{hostId}) rejects.
HostFetchThrows(c) ==
    /\ c.pc = "fetch"
    /\ CallThrows(c)

\* await fetch(...) resolves; the call goes on to read the body.
HostFetchResolves(c) ==
    /\ c.pc = "fetch"
    /\ hcalls' = (hcalls \ {c}) \cup {[c EXCEPT !.pc = "body"]}
    /\ UNCHANGED <<hostCache, hostFetches, apc, ainput, aresult, ncalls, cache0,
                   callFetches, failedHosts>>
    /\ UNCHANGED reqVars
    /\ UNCHANGED <<debug, users, hpc, response>>
    /\ UNCHANGED fanoutVars

\* if (!res.ok) { await res.text().catch(...); hostCache.set(hostId, fallback) }
HostNotOk(c) ==
    /\ c.pc = "body"
    /\ failedHosts' = failedHosts \cup {c.host}
    /\ FinishCall(c, Fallback)
    /\ UNCHANGED reqVars
    /\ UNCHANGED <<debug, users, hpc, response>>
    /\ UNCHANGED fanoutVars

\* await res.json() rejects.
HostJsonThrows(c) ==
    /\ c.pc = "body"
    /\ CallThrows(c)

\* await res.json() resolves: hostCache.set(hostId, { name, email }).
HostJsonOk(c) ==
    /\ c.pc = "body"
    /\ FinishCall(c, HostOf(HostData(c.host)))
    /\ UNCHANGED reqVars
    /\ UNCHANGED <<debug, users, hpc, response, failedHosts>>
    /\ UNCHANGED fanoutVars

\* Faulty variant: the pre-warm Promise.all is not awaited.
PrewarmNotAwaited == TRUE

\* await Promise.all(uniqueHostIds.map(id => getHostInfo(id, accessToken))):
\* the pre-warm is over when each of its calls has returned.
PrewarmSettled == \A c \in hcalls : c.origin # "prewarm"

\* The pre-warm Promise.all has resolved: meetings.map(async m => ...) calls
\* getHostInfo for every meeting, each up to its first await.
AttachPass ==
    /\ apc = "prewarm"
    /\ PrewarmSettled
    /\ LET n      == Len(ainput)
           missed == {k \in 1..n : ~Resolved(hostCache, ainput[k].host_id)} IN
       /\ aresult' = [k \in 1..n |->
              IF k \in missed THEN WithHost(ainput[k], [name |-> "", email |-> ""])
              ELSE WithHost(ainput[k], Cached(hostCache, ainput[k].host_id))]
       /\ hcalls' = hcalls \cup {HostCall(ainput[k].host_id, "attach", k) : k \in missed}
       /\ hostFetches' = [h \in HostIds |-> hostFetches[h]
              + Cardinality({k \in missed : ainput[k].host_id = h})]
       /\ callFetches' = callFetches + Cardinality(missed)
       /\ apc' = IF missed = {} THEN "returned" ELSE "attaching"
    /\ UNCHANGED <<hostCache, ainput, ncalls, cache0, failedHosts>>
    /\ UNCHANGED reqVars
    /\ UNCHANGED <<debug, users, hpc, response>>
    /\ UNCHANGED fanoutVars

(* ---------------------------------------------------------------------- *)
(* The search filters (owner_email, topic, q)                             *)
(* ---------------------------------------------------------------------- *)

\* A string is the sequence of its characters; "" is << >>.
UpperCase == <<"A", "B", "C", "D", "E", "F", "G", "H", "I", "J", "K", "L", "M",
               "N", "O", "P", "Q", "R", "S", "T", "U", "V", "W", "X", "Y", "Z">>
LowerCase == <<"a", "b", "c", "d", "e", "f", "g", "h", "i", "j", "k", "l", "m",
               "n", "o", "p", "q", "r", "s", "t", "u", "v", "w", "x", "y", "z">>

\* Faulty variant: no case conversion.
ToLowerCharKeep(c) == c

\* What toLowerCase() makes of one character.
ToLowerChar(c) ==
    IF \E k \in 1..Len(UpperCase) : UpperCase[k] = c
    THEN LowerCase[CHOOSE k \in 1..Len(UpperCase) : UpperCase[k] = c]
    ELSE c

\* s.toLowerCase()
ToLowerCase(s) == [k \in 1..Len(s) |-> ToLowerChar(s[k])]

\* s.includes(t)
Includes(s, t) ==
    \E i \in 0..(Len(s) - Len(t)) : SubSeq(s, i + 1, i + Len(t)) = t

\* m.f || ""
OrEmpty(m, f) == IF f \in DOMAIN m THEN m[f] ELSE <<>>

\* parts.join(" ")
RECURSIVE Join(_)
Join(parts) ==
    IF parts = <<>> THEN <<>>
    ELSE IF Len(parts) = 1 THEN parts[1]
    ELSE parts[1] \o <<" ">> \o Join(Tail(parts))

\* Faulty variant: the free text sees the topic, the owner email and the host
\* id only.
BagFieldsShort == <<"topic", "owner_email", "host_id">>

\* The fields the free-text filter joins into `bag`.
BagFields == <<"topic", "owner_email", "owner_name", "host_id", "hostName", "hostEmail">>

\* const bag = [m.topic || "", ..., m.hostEmail || ""].join(" ")
Bag(m) == Join([k \in 1..Len(BagFields) |-> OrEmpty(m, BagFields[k])])

\* (url.searchParams.get(name) || "").toLowerCase()
FilterOf(param) == ToLowerCase(param)

\* (m.owner_email || "").toLowerCase().includes(ownerFilter)
OwnerMatches(m, f) == Includes(ToLowerCase(OrEmpty(m, "owner_email")), f)

\* (m.topic || "").toLowerCase().includes(topicFilter)
TopicMatches(m, f) == Includes(ToLowerCase(OrEmpty(m, "topic")), f)

\* bag.toLowerCase().includes(q)
FreeTextMatches(m, f) == Includes(ToLowerCase(Bag(m)), f)

\* let filtered = meetingsWithHosts; then one filter() for each filter that is
\* not the empty string.
ResultFilter(ms, owner, topic, text) ==
    LET f1 == IF owner # <<>> THEN SelectSeq(ms, LAMBDA m : OwnerMatches(m, owner))
              ELSE ms
        f2 == IF topic # <<>> THEN SelectSeq(f1, LAMBDA m : TopicMatches(m, topic))
              ELSE f1
    IN  IF text # <<>> THEN SelectSeq(f2, LAMBDA m : FreeTextMatches(m, text))
        ELSE f2

(* ---------------------------------------------------------------------- *)
(* handleGetMeetingRecordings: its try block and its catch block          *)
(* ---------------------------------------------------------------------- *)

\* Faulty variant: no try/catch around the handler's body.
HandlerCatchesNothing == FALSE

\* The handler's body is one try block: whatever is thrown in it, or rejects
\* under one of its awaits, arrives in its catch block.
HandlerCatches == TRUE

\* catch (err) { return new Response({ error: true, status: 500, message }) }
\* (Without the try block the handler's promise would reject.)
HandlerCatch(cause) ==
    /\ raised' = cause
    /\ IF HandlerCatches
       THEN /\ hpc' = "responded"
            /\ response' = ErrorResponse
       ELSE /\ hpc' = "rejected"
            /\ UNCHANGED response

\* const users = []; let nextPageToken = ""; and the first turn of the do
\* loop up to `await fetch(usersUrl)`: the handler has its token.
HandlerGotToken(tok) ==
    /\ token' = tok
    /\ hpc' = "directory"
    /\ nextPageToken' = <<>>
    /\ pageRequests' = << <<>> >>
    /\ UNCHANGED <<response, raised>>

\* A step of a getZoomAccessToken call that no handler of the model awaits.
HandlerUntouched == UNCHANGED <<hpc, token, nextPageToken, pageRequests, response, raised>>

(* ---------------------------------------------------------------------- *)
(* getZoomAccessToken and the cached token                                *)
(* ---------------------------------------------------------------------- *)

\* The JSON body of the credential exchange that call k makes, when the
\* upstream answers 2xx: a fresh token without expires_in, a body without
\* access_token, a token that lives a minute.
TokenBody(k) ==
    CASE k % 3 = 1 -> [access_token |-> <<"tok", k>>]
      [] k % 3 = 2 -> [expires_in |-> 60]
      [] OTHER     -> [access_token |-> <<"tok", k>>, expires_in |-> 60]

\* The amounts of time (ms) that pass between two steps.
Ticks == {1, 3569999}

\* Faulty variant: the token is used up to its expiry.
TokenFreshNoMargin(tok, exp, t) == tok # <<>> /\ t < exp

\* cachedToken && now < cachedTokenExp - 30_000
TokenFresh(tok, exp, t) == tok # <<>> /\ t < exp - ExpiryMargin

\* (data.expires_in || 3600)
ExpiresIn(data) ==
    IF "expires_in" \in DOMAIN data /\ data.expires_in # 0 THEN data.expires_in
    ELSE DefaultExpiresIn

\* Faulty variant: the token is stored and the expiry left for later.
ExpiryKept(t, data) == cachedTokenExp

\* Date.now() + (data.expires_in || 3600) * 1000
Expiry(t, data) == t + ExpiresIn(data) * 1000

\* What is known of a getZoomAccessToken call when it ends: the time and the
\* cache at its first line, the exchanges it made, how it ended ("hit",
\* "stored", or what made it throw), what it returned, the body it read, and
\* the time and the cache at its last line.
TokenFacts(c, kind, fetches, result, data, tok1, exp1) ==
    [kind |-> kind, at |-> c.at, tok0 |-> c.tok0, exp0 |-> c.exp0,
     fetches |-> fetches, result |-> result, data |-> data,
     end |-> now, tok1 |-> tok1, exp1 |-> exp1]

NoCall == TokenFacts([at |-> 0, tok0 |-> <<>>, exp0 |-> 0], "none", 0, <<>>, <<>>, <<>>, 0)

\* getZoomAccessToken(env), called by `origin`, up to its return of the cached
\* token or its `await fetch(url, { method: "POST" })`.
TokenCall(origin) ==
    LET c == [id |-> tokenCalls + 1, origin |-> origin, pc |-> "fetch", at |-> now,
              tok0 |-> cachedToken, exp0 |-> cachedTokenExp] IN
    /\ tokenCalls' = tokenCalls + 1
    /\ IF TokenFresh(cachedToken, cachedTokenExp, now)
       THEN /\ tlast' = TokenFacts(c, "hit", 0, cachedToken, <<>>, cachedToken,
                                   cachedTokenExp)
            /\ UNCHANGED <<tcalls, tokenFetches>>
       ELSE /\ tcalls' = tcalls \cup {c}
            /\ tokenFetches' = tokenFetches + 1
            /\ UNCHANGED tlast
    /\ UNCHANGED <<cachedToken, cachedTokenExp, now, ticks>>

\* Faulty variant: the failure is swallowed and the caller goes on without a
\* token.
TokenThrowsSwallowed(c, cause) ==
    /\ tcalls' = tcalls \ {c}
    /\ tlast' = TokenFacts(c, cause, 1, <<>>, <<>>, cachedToken, cachedTokenExp)
    /\ IF c.origin = "handler" THEN HandlerGotToken(<<>>) ELSE HandlerUntouched
    /\ UNCHANGED <<cachedToken, cachedTokenExp, now, ticks, tokenCalls, tokenFetches>>
    /\ UNCHANGED <<filterVars, directory, otherVars>>
    /\ UNCHANGED workVars

\* Call c throws: `throw new Error("Failed to get Zoom token ...")`, or a
\* rejected await.  The cache stays as it is; the handler that awaits the
\* call lands in its catch block.
TokenThrows(c, cause) ==
    /\ tcalls' = tcalls \ {c}
    /\ tlast' = TokenFacts(c, cause, 1, <<>>, <<>>, cachedToken, cachedTokenExp)
    /\ IF c.origin = "handler"
       THEN /\ HandlerCatch(cause)
            /\ UNCHANGED <<token, nextPageToken, pageRequests>>
       ELSE HandlerUntouched
    /\ UNCHANGED <<cachedToken, cachedTokenExp, now, ticks, tokenCalls, tokenFetches>>
    /\ UNCHANGED <<filterVars, directory, otherVars>>
    /\ UNCHANGED workVars

\* await fetch(url, { method: "POST" }) rejects.
TokenFetchThrows(c) ==
    /\ c.pc = "fetch"
    /\ TokenThrows(c, "token-network")

\* await fetch(...) resolves; the call goes on to read the body.
TokenFetchResolves(c) ==
    /\ c.pc = "fetch"
    /\ tcalls' = (tcalls \ {c}) \cup {[c EXCEPT !.pc = "body"]}
    /\ HandlerUntouched
    /\ UNCHANGED <<cachedToken, cachedTokenExp, now, ticks, tokenCalls, tokenFetches,
                   tlast>>
    /\ UNCHANGED <<filterVars, directory, otherVars>>
    /\ UNCHANGED workVars

\* if (!res.ok) throw new Error(`Failed to get Zoom token (${res.status}): ...`)
TokenNotOk(c) ==
    /\ c.pc = "body"
    /\ TokenThrows(c, "token-status")

\* await res.json() rejects.
TokenJsonThrows(c) ==
    /\ c.pc = "body"
    /\ TokenThrows(c, "token-json")

\* await res.json() resolves: cachedToken = data.access_token;
\* cachedTokenExp = Date.now() + (data.expires_in || 3600) * 1000;
\* return cachedToken.
TokenOk(c) ==
    LET data == TokenBody(c.id)
        tok  == OrEmpty(data, "access_token")
        exp  == Expiry(now, data) IN
    /\ c.pc = "body"
    /\ cachedToken' = tok
    /\ cachedTokenExp' = exp
    /\ tcalls' = tcalls \ {c}
    /\ tlast' = TokenFacts(c, "stored", 1, tok, data, tok, exp)
    /\ IF c.origin = "handler" THEN HandlerGotToken(tok) ELSE HandlerUntouched
    /\ UNCHANGED <<now, ticks, tokenCalls, tokenFetches>>
    /\ UNCHANGED <<filterVars, directory, otherVars>>
    /\ UNCHANGED workVars

(* ---------------------------------------------------------------------- *)
(* The directory loop: GET /users?status=active&page_size=300             *)
(* ---------------------------------------------------------------------- *)

Last(s) == s[Len(s)]

\* The next_page_token that asks for page k of the listing; none for the first.
PageToken(k) == IF k = 1 THEN <<>> ELSE <<"page", k>>

PageNumber(tok) == IF tok = <<>> THEN 1 ELSE tok[2]

\* The JSON body the upstream sends for the request with token `tok`, when it
\* answers 2xx and holds n active users: a page of the listing and, unless it
\* is the last one, the token of the page after it.
DirectoryPage(n, tok) ==
    LET k     == PageNumber(tok)
        first == (k - 1) * PageLen + 1
        last  == Min(k * PageLen, n)
    IN  [users |-> [j \in 1..(last - first + 1) |-> User(first + j - 1)],
         next_page_token |-> IF last < n THEN PageToken(k + 1) ELSE <<>>]

\* usersRes.status of the request for page k, when the upstream refuses it.
DirectoryStatus(k) == IF k = 1 THEN 401 ELSE 429

\* if (Array.isArray(usersData.users)) users.push(...usersData.users)
PageUsers(data) == IF "users" \in DOMAIN data THEN data.users ELSE <<>>

\* Faulty variant: the loop ends after its first turn.
MorePagesNever(tok) == FALSE

\* } while (nextPageToken);
MorePages(tok) == tok # <<>>

\* Faulty variant: a refused page is answered like an exception.
PageFailureAs500(status) == ErrorResponse

\* return new Response({ error: true, status: usersRes.status, message },
\*                     { status: usersRes.status })
PageFailure(status) == [kind |-> "error", status |-> status]

\* await fetch(usersUrl) rejects.
PageFetchThrows ==
    /\ hpc = "directory"
    /\ HandlerCatch("directory-network")
    /\ UNCHANGED <<users, nextPageToken, pageRequests, directory>>
    /\ UNCHANGED <<debug, fanoutVars, hostVars, filterVars, tokenVars, otherVars>>

\* await fetch(usersUrl) resolves; the handler goes on to read the body.
PageFetchResolves ==
    /\ hpc = "directory"
    /\ hpc' = "directory-body"
    /\ UNCHANGED <<users, response, raised>>
    /\ UNCHANGED <<debug, fanoutVars, hostVars, filterVars, tokenVars, dirVars,
                   otherVars>>

\* if (!usersRes.ok) { const body = await usersRes.text(); return ... }
PageNotOk ==
    /\ hpc = "directory-body"
    /\ response' = PageFailure(DirectoryStatus(Len(pageRequests)))
    /\ hpc' = "responded"
    /\ UNCHANGED <<users, raised>>
    /\ UNCHANGED <<debug, fanoutVars, hostVars, filterVars, tokenVars, dirVars,
                   otherVars>>

\* await usersRes.text() or await usersRes.json() rejects, or the body parses
\* to null (usersData.users throws).
PageBodyThrows ==
    /\ hpc = "directory-body"
    /\ HandlerCatch("directory-body")
    /\ UNCHANGED <<users, nextPageToken, pageRequests, directory>>
    /\ UNCHANGED <<debug, fanoutVars, hostVars, filterVars, tokenVars, otherVars>>

\* await usersRes.json() resolves: users.push(...usersData.users);
\* nextPageToken = usersData.next_page_token || ""; and, while it is not
\* empty, the next turn of the loop up to its fetch.
PageOk ==
    LET data == DirectoryPage(directory, Last(pageRequests))
        next == OrEmpty(data, "next_page_token") IN
    /\ hpc = "directory-body"
    /\ users' = users \o PageUsers(data)
    /\ nextPageToken' = next
    /\ IF MorePages(next)
       THEN /\ pageRequests' = Append(pageRequests, next)
            /\ hpc' = "directory"
       ELSE /\ hpc' = "enumerated"
            /\ UNCHANGED pageRequests
    /\ UNCHANGED <<directory, response, raised>>
    /\ UNCHANGED <<debug, fanoutVars, hostVars, filterVars, tokenVars, otherVars>>

(* ---------------------------------------------------------------------- *)
(* handleGetMeetingRecordings around the fan-out                          *)
(* ---------------------------------------------------------------------- *)

NoResponse == [kind |-> "none", status |-> 0]

\* const respBody = { from, to, ..., page_size: totalRecords,
\*                    total_records: totalRecords, meetings: filtered }
RespBody(filtered) ==
    [kind |-> "meetings", status |-> 200, from |-> params.from, to |-> params.to,
     page_size |-> Len(filtered), total_records |-> Len(filtered),
     meetings |-> filtered]

\* if (debug === "users")
\*     return new Response({ from, to, total_users, users }, 200)
RespondUsers ==
    /\ hpc = "enumerated"
    /\ DebugUsers
    /\ response' = [kind |-> "users", status |-> 200, from |-> params.from,
                    to |-> params.to, total_users |-> Len(users), users |-> users]
    /\ hpc' = "responded"
    /\ UNCHANGED reqVars
    /\ UNCHANGED <<debug, users>>
    /\ UNCHANGED fanoutVars
    /\ UNCHANGED hostVars

\* if (!users.length) return new Response({ total_records: 0, meetings: [] }, 200)
RespondEmpty ==
    /\ hpc = "enumerated"
    /\ ~DebugUsers
    /\ Len(users) = 0
    /\ response' = RespBody(<<>>)
    /\ hpc' = "responded"
    /\ UNCHANGED reqVars
    /\ UNCHANGED <<debug, users>>
    /\ UNCHANGED fanoutVars
    /\ UNCHANGED hostVars

\* Faulty variant: Promise.all(...) without its await.
JoinedNotAwaited == TRUE

\* Faulty variant: Promise.race in the place of Promise.all.
JoinedAny == \E w \in Workers : wpc[w] = "done"

\* Promise.all(workers) resolves once every worker has returned.
Joined == AllWorkersDone

\* After the join with debug === "user-recordings": the per-user counts.
RespondUserRecordings ==
    /\ hpc = "fanout"
    /\ Joined
    /\ DebugUserRecordings
    /\ response' = SetIfAny([kind |-> "user-recordings", status |-> 200,
                              from |-> params.from, to |-> params.to,
                              total_users |-> Len(users),
                              per_user |-> perUserSummary],
                             "errors", errors)
    /\ hpc' = "responded"
    /\ UNCHANGED reqVars
    /\ UNCHANGED <<debug, users>>
    /\ UNCHANGED fanoutVars
    /\ UNCHANGED hostVars

\* After the join otherwise: await attachHostsToRecordings(meetings, token).
StartEnrich ==
    /\ hpc = "fanout"
    /\ Joined
    /\ ~DebugUserRecordings
    /\ AttachStart(meetings)
    /\ hpc' = "enriching"
    /\ UNCHANGED reqVars
    /\ UNCHANGED <<debug, users, response>>
    /\ UNCHANGED fanoutVars

\* attachHostsToRecordings has returned: the filters and the final Response;
\* `_errors` is set only when errors.length > 0.  (Had it thrown, the
\* handler's catch block would answer.)
Respond ==
    /\ hpc = "enriching"
    /\ apc \in {"returned", "threw"}
    /\ response' = IF apc = "threw" THEN ErrorResponse
                   ELSE LET filtered == ResultFilter(aresult, ownerFilter,
                                                     topicFilter, q)
                        IN  SetIfAny(RespBody(filtered), "_errors", errors)
    /\ hpc' = "responded"
    /\ UNCHANGED reqVars
    /\ UNCHANGED <<debug, users>>
    /\ UNCHANGED fanoutVars
    /\ UNCHANGED hostVars

(* ---------------------------------------------------------------------- *)
(* Specification of one request                                           *)
(* ---------------------------------------------------------------------- *)

IdleFanout ==
    /\ idx = 0
    /\ nworkers = 0
    /\ wpc = <<>>
    /\ wi = <<>>
    /\ claimed = [i \in 0..MaxUsers |-> 0]
    /\ served = [i \in 1..MaxUsers |-> "none"]
    /\ meetings = <<>>
    /\ errors = <<>>
    /\ perUserSummary = <<>>
    /\ requested = <<>>

IdleHosts ==
    /\ hostCache = <<>>
    /\ hcalls = {}
    /\ hostFetches = [h \in HostIds |-> 0]
    /\ apc = "idle"
    /\ ainput = <<>>
    /\ aresult = <<>>
    /\ ncalls = 0
    /\ cache0 = {}
    /\ callFetches = 0
    /\ failedHosts = {}

\* No delete or download request has arrived, and the client is at rest.
IdleOthers ==
    /\ route = "none"
    /\ req = <<>>
    /\ ppc = "idle"
    /\ zoomRes = <<>>
    /\ sent = <<>>
    /\ fetchAll = [pc |-> "idle"]
    /\ bulk = [pc |-> "rest"]

\* A request without search filters.
NoParams == [from |-> <<>>, to |-> <<>>, owner_email |-> <<>>, topic |-> <<>>, q |-> <<>>]

\* The values of from and to: absent, or a date range.
DateParams == {<< <<>>, <<>> >>, << <<"2024-01-01">>, <<"2024-01-31">> >>}

\* const ownerFilter, topicFilter, q  as the handler's first lines set them.
FiltersRead ==
    /\ ownerFilter = FilterOf(params.owner_email)
    /\ topicFilter = FilterOf(params.topic)
    /\ q = FilterOf(params.q)

\* let cachedToken = null; let cachedTokenExp = 0;  no call made yet.  Time is
\* counted from here.
ColdTokens ==
    /\ cachedToken = <<>>
    /\ cachedTokenExp = 0
    /\ now = 0
    /\ ticks = 0
    /\ tcalls = {}
    /\ tokenCalls = 0
    /\ tokenFetches = 0
    /\ tlast = NoCall

\* No handler has run yet.
NoRequest ==
    /\ params = NoParams
    /\ FiltersRead
    /\ ColdTokens
    /\ token = <<>>
    /\ directory = 0
    /\ nextPageToken = <<>>
    /\ pageRequests = <<>>
    /\ raised = "none"

\* The number of pages of a listing of n users.
NumPages(n) == IF n = 0 THEN 1 ELSE (n + PageLen - 1) \div PageLen

\* Where token exchange and directory loop leave the first request after the
\* module's load, when nothing fails and the directory holds n users.
Enumerated(n) ==
    LET data == TokenBody(1)
        tok  == data.access_token
        c    == [at |-> 0, tok0 |-> <<>>, exp0 |-> 0] IN
    /\ params = NoParams
    /\ FiltersRead
    /\ now = 0
    /\ ticks = 0
    /\ cachedToken = tok
    /\ cachedTokenExp = Expiry(0, data)
    /\ tcalls = {}
    /\ tokenCalls = 1
    /\ tokenFetches = 1
    /\ tlast = TokenFacts(c, "stored", 1, tok, data, tok, Expiry(0, data))
    /\ token = tok
    /\ directory = n
    /\ nextPageToken = <<>>
    /\ pageRequests = [k \in 1..NumPages(n) |-> PageToken(k)]
    /\ raised = "none"

\* The handler has the token and the full user list; the host cache is as
\* created.  The debug modes are run on the smaller directories.
Init ==
    /\ debug \in {"", "users", "user-recordings"}
    /\ \E n \in 0..(IF debug = "" THEN MaxUsers ELSE MaxDirectory) :
           /\ users = [i \in 1..n |-> User(i)]
           /\ Enumerated(n)
    /\ hpc = "enumerated"
    /\ IdleFanout
    /\ IdleHosts
    /\ response = NoResponse
    /\ IdleOthers

Next ==
    \/ RespondUsers
    \/ RespondEmpty
    \/ StartFanout
    \/ \E w \in Workers : FetchThrows(w)
    \/ \E w \in Workers : FetchResolves(w)
    \/ \E w \in Workers : RecordingsNotOk(w)
    \/ \E w \in Workers : RecordingsNonJson(w)
    \/ \E w \in Workers : RecordingsThrows(w)
    \/ \E w \in Workers : RecordingsOk(w)
    \/ RespondUserRecordings
    \/ StartEnrich
    \/ \E c \in hcalls : HostFetchThrows(c)
    \/ \E c \in hcalls : HostFetchResolves(c)
    \/ \E c \in hcalls : HostNotOk(c)
    \/ \E c \in hcalls : HostJsonThrows(c)
    \/ \E c \in hcalls : HostJsonOk(c)
    \/ AttachPass
    \/ Respond

Spec == Init /\ [][Next]_vars

(* ---------------------------------------------------------------------- *)
(* Specification of the host cache over successive requests               *)
(* ---------------------------------------------------------------------- *)

\* The aggregated meetings of a request, as far as the enrichment reads them.
Meeting(k, h) == [uuid |-> <<0, k>>, host_id |-> h]

MeetingLists ==
    UNION {[1..n -> {""} \cup HostIds] : n \in 0..MaxMeetings}

\* The enrichment step of the next request: the handler calls
\* attachHostsToRecordings with that request's meetings; hostCache is what the
\* requests before left in it.
NextRequestEnrich ==
    /\ hpc = "serving"
    /\ apc \in {"idle", "returned"}
    /\ ncalls < MaxCalls
    /\ \E hs \in MeetingLists :
           AttachStart([k \in 1..Len(hs) |-> Meeting(k, hs[k])])
    /\ UNCHANGED reqVars
    /\ UNCHANGED <<debug, users, hpc, response>>
    /\ UNCHANGED fanoutVars

InitHost ==
    /\ debug = ""
    /\ users = <<>>
    /\ hpc = "serving"
    /\ IdleFanout
    /\ IdleHosts
    /\ NoRequest
    /\ response = NoResponse
    /\ IdleOthers

NextHost ==
    \/ NextRequestEnrich
    \/ \E c \in hcalls : HostFetchThrows(c)
    \/ \E c \in hcalls : HostFetchResolves(c)
    \/ \E c \in hcalls : HostNotOk(c)
    \/ \E c \in hcalls : HostJsonThrows(c)
    \/ \E c \in hcalls : HostJsonOk(c)
    \/ AttachPass

SpecHost == InitHost /\ [][NextHost]_vars

(* ---------------------------------------------------------------------- *)
(* Specification of a whole request                                       *)
(* ---------------------------------------------------------------------- *)

\* handleGetMeetingRecordings(req, env) from its first line to the first
\* await that waits for the network: the filters are read, and
\* getZoomAccessToken returns the cached token or issues its exchange.
StartRequest ==
    /\ hpc = "idle"
    /\ ownerFilter' = FilterOf(params.owner_email)
    /\ topicFilter' = FilterOf(params.topic)
    /\ q' = FilterOf(params.q)
    /\ TokenCall("handler")
    /\ IF TokenFresh(cachedToken, cachedTokenExp, now)
       THEN HandlerGotToken(cachedToken)
       ELSE /\ hpc' = "token"
            /\ UNCHANGED <<token, nextPageToken, pageRequests, response, raised>>
    /\ UNCHANGED <<params, directory, otherVars>>
    /\ UNCHANGED workVars

\* A request without search filters arrives; the directory holds up to MaxDirectory
\* users; the token cache is empty or holds the token of an earlier request.
InitRequest ==
    /\ debug \in {"", "users", "user-recordings"}
    /\ directory \in 0..MaxDirectory
    /\ users = <<>>
    /\ hpc = "idle"
    /\ IdleFanout
    /\ IdleHosts
    /\ response = NoResponse
    /\ IdleOthers
    /\ \E d \in DateParams : params = [NoParams EXCEPT !.from = d[1], !.to = d[2]]
    /\ ownerFilter = <<>>
    /\ topicFilter = <<>>
    /\ q = <<>>
    /\ now = 0
    /\ ticks = 0
    /\ \E warm \in BOOLEAN :
           /\ cachedToken = IF warm THEN <<"tok", 0>> ELSE <<>>
           /\ cachedTokenExp = IF warm THEN Expiry(0, TokenBody(1)) ELSE 0
    /\ tcalls = {}
    /\ tokenCalls = 0
    /\ tokenFetches = 0
    /\ tlast = NoCall
    /\ token = <<>>
    /\ nextPageToken = <<>>
    /\ pageRequests = <<>>
    /\ raised = "none"

NextRequest ==
    \/ StartRequest
    \/ \E c \in tcalls : TokenFetchThrows(c)
    \/ \E c \in tcalls : TokenFetchResolves(c)
    \/ \E c \in tcalls : TokenNotOk(c)
    \/ \E c \in tcalls : TokenJsonThrows(c)
    \/ \E c \in tcalls : TokenOk(c)
    \/ PageFetchThrows
    \/ PageFetchResolves
    \/ PageNotOk
    \/ PageBodyThrows
    \/ PageOk
    \/ RespondUsers
    \/ RespondEmpty
    \/ StartFanout
    \/ \E w \in Workers : FetchThrows(w)
    \/ \E w \in Workers : FetchResolves(w)
    \/ \E w \in Workers : RecordingsNotOk(w)
    \/ \E w \in Workers : RecordingsNonJson(w)
    \/ \E w \in Workers : RecordingsThrows(w)
    \/ \E w \in Workers : RecordingsOk(w)
    \/ RespondUserRecordings
    \/ StartEnrich
    \/ \E c \in hcalls : HostFetchThrows(c)
    \/ \E c \in hcalls : HostFetchResolves(c)
    \/ \E c \in hcalls : HostNotOk(c)
    \/ \E c \in hcalls : HostJsonThrows(c)
    \/ \E c \in hcalls : HostJsonOk(c)
    \/ AttachPass
    \/ Respond

SpecRequest == InitRequest /\ [][NextRequest]_vars

\* Every network call the handler awaits settles: it resolves or it rejects.
FairRequest == SpecRequest /\ WF_vars(NextRequest)

\* The recordings request the first worker is waiting for is answered or
\* rejected.
FirstFetchSettles ==
    /\ 1 \in Workers
    /\ FetchThrows(1) \/ FetchResolves(1)

\* Every network call the handler awaits settles, but for the recordings
\* requests of the first worker: these may stay without an answer for ever.
HangRequest == SpecRequest /\ WF_vars(NextRequest /\ ~FirstFetchSettles)

(* ---------------------------------------------------------------------- *)
(* Specification of the token cache over successive requests              *)
(* ---------------------------------------------------------------------- *)

\* A request calls getZoomAccessToken; the cache is what the calls before it
\* left.
NextTokenCall ==
    /\ hpc = "serving"
    /\ tokenCalls < MaxTokenCalls
    /\ TokenCall("request")
    /\ HandlerUntouched
    /\ UNCHANGED <<filterVars, directory, otherVars>>
    /\ UNCHANGED workVars

\* Time passes.
Tick ==
    /\ hpc = "serving"
    /\ ticks < MaxTicks
    /\ \E d \in Ticks : now' = now + d
    /\ ticks' = ticks + 1
    /\ HandlerUntouched
    /\ UNCHANGED <<cachedToken, cachedTokenExp, tcalls, tokenCalls, tokenFetches, tlast>>
    /\ UNCHANGED <<filterVars, directory, otherVars>>
    /\ UNCHANGED workVars

InitToken ==
    /\ debug = ""
    /\ users = <<>>
    /\ hpc = "serving"
    /\ IdleFanout
    /\ IdleHosts
    /\ NoRequest
    /\ response = NoResponse
    /\ IdleOthers

NextToken ==
    \/ NextTokenCall
    \/ Tick
    \/ \E c \in tcalls : TokenFetchThrows(c)
    \/ \E c \in tcalls : TokenFetchResolves(c)
    \/ \E c \in tcalls : TokenNotOk(c)
    \/ \E c \in tcalls : TokenJsonThrows(c)
    \/ \E c \in tcalls : TokenOk(c)

SpecToken == InitToken /\ [][NextToken]_vars

(* ---------------------------------------------------------------------- *)
(* Specification of the two module-level caches under overlapping requests *)
(* ---------------------------------------------------------------------- *)

\* The pre-warm of one more request, while lookups of the requests before it
\* may still be under way: uniqueHostIds.map(id => getHostInfo(id, token)),
\* each call up to its cached value or its fetch.  The calls carry the number
\* of their request.
OverlappingPrewarm ==
    /\ hpc = "serving"
    /\ tokenCalls = 0
    /\ ncalls < MaxCalls
    /\ \E ids \in (SUBSET HostIds) \ {{}} :
           LET misses == {id \in ids : ~Resolved(hostCache, id)} IN
           /\ hcalls' = hcalls \cup {HostCall(id, "prewarm", ncalls + 1) : id \in misses}
           /\ hostFetches' = CountFetches(misses)
           /\ callFetches' = callFetches + Cardinality(misses)
    /\ ncalls' = ncalls + 1
    /\ UNCHANGED <<hostCache, apc, ainput, aresult, cache0, failedHosts>>
    /\ UNCHANGED reqVars
    /\ UNCHANGED <<debug, users, hpc, response>>
    /\ UNCHANGED fanoutVars

\* const token = await getZoomAccessToken(env)  of one more request, while
\* calls of the requests before it may still be under way.
OverlappingTokenCall ==
    /\ ncalls = 0
    /\ NextTokenCall

\* Requests that overlap in one isolate: each calls getZoomAccessToken and,
\* later, getHostInfo for its host ids; the clock stands still meanwhile.  The
\* two caches share no state, and a run exercises one of them.
NextShared ==
    \/ OverlappingTokenCall
    \/ \E c \in tcalls : TokenFetchThrows(c)
    \/ \E c \in tcalls : TokenFetchResolves(c)
    \/ \E c \in tcalls : TokenNotOk(c)
    \/ \E c \in tcalls : TokenJsonThrows(c)
    \/ \E c \in tcalls : TokenOk(c)
    \/ OverlappingPrewarm
    \/ \E c \in hcalls : HostFetchThrows(c)
    \/ \E c \in hcalls : HostFetchResolves(c)
    \/ \E c \in hcalls : HostNotOk(c)
    \/ \E c \in hcalls : HostJsonThrows(c)
    \/ \E c \in hcalls : HostJsonOk(c)

SpecShared == InitToken /\ [][NextShared]_vars

(* ---------------------------------------------------------------------- *)
(* Specification of the filters                                           *)
(* ---------------------------------------------------------------------- *)

\* Enriched meetings as attachHostsToRecordings returns them: one without a
\* topic, one whose owner name (not its topic) reads "standup", one without
\* host.
FilterMeeting(k) ==
    CASE k = 1 -> [uuid |-> <<0, 1>>,
                   topic |-> <<"D", "a", "y", " ", "S", "t", "a", "n", "d", "u", "p">>,
                   owner_email |-> <<"a", "n", "n", "@", "x">>,
                   owner_name |-> <<"A", "n", "n">>,
                   host_id |-> <<"h", "1">>,
                   hostName |-> <<"B", "o">>,
                   hostEmail |-> <<"b", "o", "@", "x">>]
      [] k = 2 -> [uuid |-> <<0, 2>>,
                   topic |-> <<"S", "T", "A", "N", "D", "U", "P">>,
                   owner_email |-> <<"B", "o", "@", "x">>,
                   owner_name |-> <<"B", "o">>,
                   host_id |-> <<"h", "2">>,
                   hostName |-> <<"A", "n", "n">>,
                   hostEmail |-> <<"a", "n", "n", "@", "x">>]
      [] k = 3 -> [uuid |-> <<0, 3>>,
                   owner_email |-> <<"a", "n", "n", "@", "x">>,
                   owner_name |-> <<"A", "n", "n">>,
                   host_id |-> <<>>,
                   hostName |-> <<"U", "n", "k">>,
                   hostEmail |-> <<>>]
      [] k = 4 -> [uuid |-> <<0, 4>>,
                   topic |-> <<"s", "t", "a", "n", "d", " ", "u", "p">>,
                   owner_email |-> <<"c", "y", "@", "x">>,
                   owner_name |-> <<"s", "t", "a", "n", "d", "u", "p">>,
                   host_id |-> <<"h", "1">>,
                   hostName |-> <<"B", "o">>,
                   hostEmail |-> <<"b", "o", "@", "x">>]
      [] OTHER -> [uuid |-> <<0, 5>>,
                   topic |-> <<"S", "y", "n", "c">>,
                   owner_email |-> <<"c", "y", "@", "x">>,
                   owner_name |-> <<"C", "y">>,
                   host_id |-> <<"h", "2">>,
                   hostName |-> <<"A", "n", "n">>,
                   hostEmail |-> <<"a", "n", "n", "@", "x">>]

FilterMeetings == {FilterMeeting(k) : k \in 1..5}

\* The lists of enriched meetings the filters are run on.
FilterLists == UNION {[1..n -> FilterMeetings] : n \in 0..MaxFiltered}

\* The values of owner_email, topic and q the requests carry ("" when the
\* parameter is absent).
OwnerParams == {<<>>, <<"A", "N", "N">>, <<"b", "o">>}
TopicParams == {<<>>, <<"s", "t", "a", "n", "d", "u", "p">>, <<"S", "t", "a", "n", "d", "U", "p">>}
TextParams == {<<>>, <<"A", "n", "n">>, <<"n", " ", "h", "1">>, <<"z", "z">>}

\* The errors the fan-out of the request has left: none, or one user's.
FilterErrors == {<<>>, <<ErrorEntry(User(1), 500, "status")>>}

\* The handler of a request with these parameters is back from
\* attachHostsToRecordings with this list.
InitFilter ==
    /\ debug = ""
    /\ users = <<>>
    /\ hpc = "enriching"
    /\ idx = 0
    /\ nworkers = 0
    /\ wpc = <<>>
    /\ wi = <<>>
    /\ claimed = [i \in 0..MaxUsers |-> 0]
    /\ served = [i \in 1..MaxUsers |-> "none"]
    /\ meetings = <<>>
    /\ errors \in FilterErrors
    /\ perUserSummary = <<>>
    /\ requested = <<>>
    /\ aresult \in FilterLists
    /\ ainput = aresult
    /\ apc = "returned"
    /\ ncalls = 1
    /\ hostCache = <<>>
    /\ hcalls = {}
    /\ hostFetches = [h \in HostIds |-> 0]
    /\ cache0 = {}
    /\ callFetches = 0
    /\ failedHosts = {}
    /\ \E d \in DateParams :
           params \in [from : {d[1]}, to : {d[2]}, owner_email : OwnerParams,
                       topic : TopicParams, q : TextParams]
    /\ FiltersRead
    /\ ColdTokens
    /\ token = <<>>
    /\ directory = 0
    /\ nextPageToken = <<>>
    /\ pageRequests = <<>>
    /\ raised = "none"
    /\ response = NoResponse
    /\ IdleOthers

NextFilter == Respond

SpecFilter == InitFilter /\ [][NextFilter]_vars


(* ---------------------------------------------------------------------- *)
(* The delete handlers and the download proxies                           *)
(* ---------------------------------------------------------------------- *)

\* "zoom.us"
ZoomUs == <<"z", "o", "o", "m", ".", "u", "s">>

\* "/v2/phone/recording/download" and "/rec/"
PhonePrefix == <<"/", "v", "2", "/", "p", "h", "o", "n", "e", "/", "r", "e", "c", "o",
                 "r", "d", "i", "n", "g", "/", "d", "o", "w", "n", "l", "o", "a", "d">>
RecPrefix == <<"/", "r", "e", "c", "/">>

\* s.startsWith(t) and s.endsWith(t)
StartsWith(s, t) == Len(s) >= Len(t) /\ SubSeq(s, 1, Len(t)) = t
EndsWith(s, t) == Len(s) >= Len(t) /\ SubSeq(s, Len(s) - Len(t) + 1, Len(s)) = t

\* The requests the router hands to a handler.  A delete request has a method
\* and a body (JSON or not, with or without the id of the recording); a
\* download request has the `url` parameter: missing, not a URL, or a URL with
\* one of the hosts zoom.us, a.zoom.us, xzoom.us, x.co and one of the paths
\* /rec/a, /v2/phone/recording/download/a, /x.
Requests(r) ==
    IF r \in {"phone-delete", "meeting-delete"}
    THEN [method : {"POST", "GET"}, json : BOOLEAN, id : {"", "r1"}]
    ELSE [kind : {"missing", "invalid"}, hostname : {<<>>}, pathname : {<<>>}]
         \cup [kind : {"url"},
               hostname : {ZoomUs, <<"a", ".">> \o ZoomUs, <<"x">> \o ZoomUs,
                           <<"x", ".", "c", "o">>},
               pathname : {RecPrefix \o <<"a">>, PhonePrefix \o <<"/", "a">>,
                           <<"/", "x">>}]

\* What the upstream answers to the handler's request: a status and a body
\* that is empty, no JSON, or a JSON object with or without `code` and
\* `message`; a 204 has no body.
ZoomAnswers ==
    {a \in [status : {200, 204, 400, 404, 500},
            text : [kind : {"empty"}, code : {0}, message : {""}]
                   \cup [kind : {"plain"}, code : {0}, message : {""}]
                   \cup [kind : {"json"}, code : {0, 3301}, message : {"", "gone"}]] :
        a.status = 204 => a.text.kind = "empty"}

\* The tests a handler makes before it asks for the token pass.
Accepted(r, rq) ==
    CASE r \in {"phone-delete", "meeting-delete"} ->
             rq.method = "POST" /\ rq.json /\ rq.id # ""
      [] r = "phone-download" ->
             /\ rq.kind = "url"
             /\ rq.hostname = ZoomUs
             /\ StartsWith(rq.pathname, PhonePrefix)
      [] OTHER ->
             /\ rq.kind = "url"
             /\ EndsWith(rq.hostname, ZoomUs)
             /\ StartsWith(rq.pathname, RecPrefix)

\* Faulty variant: the upstream status is the status of the response.
DeletePassThrough(status, text) ==
    [kind |-> "delete", status |-> status, ok |-> status \in 200..299,
     zoomStatus |-> status]

\* The Response of a delete handler to the upstream's answer: the error of a
\* body with a Zoom code or message, the error of a status that is not 2xx,
\* or { ok: true, zoomStatus: status }.
DeleteResponse(status, text) ==
    IF text.kind = "json" /\ (text.code # 0 \/ text.message # "")
    THEN [kind |-> "delete", status |-> IF status = 200 THEN 400 ELSE status,
          ok |-> FALSE, zoomStatus |-> status]
    ELSE IF ~(status \in 200..299) /\ status # 204
    THEN [kind |-> "delete", status |-> status, ok |-> FALSE, zoomStatus |-> status]
    ELSE [kind |-> "delete", status |-> 200, ok |-> TRUE, zoomStatus |-> status]

ProxyFrame ==
    /\ UNCHANGED <<filterVars, dirVars, raised, hpc, fetchAll, bulk>>
    /\ UNCHANGED <<cachedToken, cachedTokenExp, now, ticks, tcalls, tokenFetches, tlast>>
    /\ UNCHANGED workVars

\* The handler up to its first await of the network: json(405, ...) or
\* json(400, ...) for a request it does not accept, else
\* await getZoomAccessToken(env).
ProxyStart ==
    /\ ppc = "start"
    /\ IF Accepted(route, req)
       THEN /\ ppc' = "token"
            /\ tokenCalls' = tokenCalls + 1
            /\ UNCHANGED response
       ELSE /\ ppc' = "responded"
            /\ response' = [kind |-> "refused",
                            status |-> IF "method" \in DOMAIN req /\ req.method # "POST"
                                       THEN 405 ELSE 400]
            /\ UNCHANGED tokenCalls
    /\ UNCHANGED <<route, req, zoomRes, sent, token>>
    /\ ProxyFrame

\* getZoomAccessToken has returned (a token, or the undefined access_token of
\* a body without one): the handler sends its request with the token, to
\* ZOOM_API_BASE or to the host of the `url` parameter.  (The meeting download
\* answers 500 when it has no token.)
ProxyToken ==
    /\ ppc = "token"
    /\ \E tok \in {<<"tok", 1>>, <<>>} :
          /\ token' = tok
          /\ IF route = "meeting-download" /\ tok = <<>>
             THEN /\ ppc' = "responded"
                  /\ response' = [kind |-> "refused", status |-> 500]
                  /\ UNCHANGED sent
             ELSE /\ ppc' = "fetch"
                  /\ sent' = Append(sent,
                         [hostname |-> IF "hostname" \in DOMAIN req THEN req.hostname
                                       ELSE <<"a", "p", "i", ".">> \o ZoomUs,
                          authorization |-> tok])
                  /\ UNCHANGED response
    /\ UNCHANGED <<route, req, zoomRes, tokenCalls>>
    /\ ProxyFrame

\* The upstream has answered: the download proxies hand the status and the
\* body on, the delete handlers read the body and answer with what they make
\* of it.
ProxyAnswered ==
    /\ ppc = "fetch"
    /\ \E a \in ZoomAnswers :
          /\ zoomRes' = a
          /\ response' = IF route \in {"phone-delete", "meeting-delete"}
                         THEN DeleteResponse(a.status, a.text)
                         ELSE [kind |-> "download", status |-> a.status]
    /\ ppc' = "responded"
    /\ UNCHANGED <<route, req, sent, token, tokenCalls>>
    /\ ProxyFrame

\* getZoomAccessToken or the fetch rejects: the handler has no try block, its
\* promise rejects.
ProxyRejects ==
    /\ ppc \in {"token", "fetch"}
    /\ ppc' = "rejected"
    /\ UNCHANGED <<route, req, zoomRes, sent, token, tokenCalls, response>>
    /\ ProxyFrame

\* The router has called one of the four handlers with a request.
InitProxy ==
    /\ debug = ""
    /\ users = <<>>
    /\ hpc = "serving"
    /\ IdleFanout
    /\ IdleHosts
    /\ NoRequest
    /\ response = NoResponse
    /\ route \in {"phone-delete", "meeting-delete", "phone-download", "meeting-download"}
    /\ req \in Requests(route)
    /\ ppc = "start"
    /\ zoomRes = <<>>
    /\ sent = <<>>
    /\ fetchAll = [pc |-> "idle"]
    /\ bulk = [pc |-> "rest"]

NextProxy == ProxyStart \/ ProxyToken \/ ProxyAnswered \/ ProxyRejects

SpecProxy == InitProxy /\ [][NextProxy]_vars

(* ---------------------------------------------------------------------- *)
(* The client's paging loops (useRecordings)                              *)
(* ---------------------------------------------------------------------- *)

\* The page cap of the loop of fetchAllPhoneRecordings ("phone") and of
\* fetchAllContactCenterRecordings ("cc").
PageCap(of) == IF of = "phone" THEN MAX_PHONE_PAGES ELSE MAX_CC_PAGES

\* Page k of an upstream listing of `held` pages (of pages without end when
\* held is 0): its recordings (none, one, two; `recordings` may be missing)
\* and the token of the next page, if there is one.
ApiPage(k, held) ==
    [recordings |-> [j \in 1..(k % 3) |-> [id |-> <<k, j>>]],
     next_page_token |-> IF held = 0 \/ k < held THEN <<"page", k + 1>> ELSE <<>>]

\* Faulty variant: the loop without its cap.
AgainNoCap(tok, n, cap) == tok # <<>>

\* while (nextToken && loops < MAX_PHONE_PAGES)
Again(tok, n, cap) == tok # <<>> /\ n < cap

\* await fetchJson(...) resolves with a page:
\* recs = (apiPage.recordings ?? []).map(r => ({ ...r, source }));
\* allRecs.push(...recs); nextToken = apiPage.next_page_token ?? null;
\* loops += 1; and, while the loop goes on, the request for the next page.
FetchAllPage ==
    /\ fetchAll.pc = "fetch"
    /\ LET apiPage == ApiPage(fetchAll.loops + 1, fetchAll.held)
           recs == [j \in 1..Len(apiPage.recordings) |->
                       [id |-> apiPage.recordings[j].id, source |-> fetchAll.of]]
           tok == apiPage.next_page_token
           again == Again(tok, fetchAll.loops + 1, PageCap(fetchAll.of)) IN
       fetchAll' = [fetchAll EXCEPT
           !.allRecs = @ \o recs,
           !.nextToken = tok,
           !.loops = @ + 1,
           !.asked = IF again THEN Append(@, tok) ELSE @,
           !.pc = IF again THEN "fetch" ELSE "returned"]
    /\ UNCHANGED <<proxyVars, bulk, filterVars, tokenVars, dirVars, raised, hpc, response>>
    /\ UNCHANGED workVars

\* fetchJson throws (the fetch rejects, or `HTTP ${res.status}`): the loop is
\* left by the exception.
FetchAllThrows ==
    /\ fetchAll.pc = "fetch"
    /\ fetchAll' = [fetchAll EXCEPT !.pc = "threw"]
    /\ UNCHANGED <<proxyVars, bulk, filterVars, tokenVars, dirVars, raised, hpc, response>>
    /\ UNCHANGED workVars

\* fetchAllPhoneRecordings or fetchAllContactCenterRecordings has been called
\* and has sent its first request, without a token; the upstream holds up to
\* MaxHeld pages, as many as the cap allows, one more, or pages without end.
InitPaging ==
    /\ debug = ""
    /\ users = <<>>
    /\ hpc = "serving"
    /\ IdleFanout
    /\ IdleHosts
    /\ NoRequest
    /\ response = NoResponse
    /\ route = "none"
    /\ req = <<>>
    /\ ppc = "idle"
    /\ zoomRes = <<>>
    /\ sent = <<>>
    /\ \E of \in {"phone", "cc"} :
       \E held \in (0..MaxHeld) \cup {PageCap(of), PageCap(of) + 1} :
           fetchAll = [pc |-> "fetch", of |-> of, held |-> held, allRecs |-> <<>>,
                       nextToken |-> <<>>, loops |-> 0, asked |-> << <<>> >>]
    /\ bulk = [pc |-> "rest"]

NextPaging == FetchAllPage \/ FetchAllThrows

\* Every request is answered in the end.
FairPaging == InitPaging /\ [][NextPaging]_vars /\ WF_vars(NextPaging)

(* ---------------------------------------------------------------------- *)
(* The client's bulk delete (App.tsx, handleBulkDelete)                   *)
(* ---------------------------------------------------------------------- *)

\* makeRecordKey(rec, idx), idx as `index`: `m|${rec.meetingId ?? ""}|${rec.id ?? idx}` for a
\* meeting recording, `p|${rec.id ?? idx}` for any other.  A missing field
\* is <<>>.
makeRecordKey(rec, index) ==
    IF rec.source = "meetings"
    THEN <<"m", rec.meetingId, IF rec.id = <<>> THEN <<index>> ELSE rec.id>>
    ELSE <<"p", IF rec.id = <<>> THEN <<index>> ELSE rec.id>>

\* The body of the POST request that deletes rec.
DeleteRequest(rec) ==
    IF rec.source = "phone"
    THEN [url |-> "/api/phone/recordings/delete", meetingId |-> <<>>,
          recordingId |-> rec.id, action |-> ""]
    ELSE [url |-> "/api/meeting/recordings/delete", meetingId |-> rec.meetingId,
          recordingId |-> rec.id, action |-> "trash"]

\* if (!rec.id) throw ...   /   if (!rec.id || !rec.meetingId) throw ...
MissingIds(rec, source) ==
    IF source = "phone" THEN rec.id = <<>> ELSE rec.id = <<>> \/ rec.meetingId = <<>>

\* Faulty variant: the loop is left at the first failure.
LoopStopsOnFailure(b) == b.i < Len(b.toDelete) /\ b.failed = 0

\* for (let i = 0; i < toDelete.length; i++)
LoopGoesOn(b) == b.i < Len(b.toDelete)

\* catch (err) { failed += 1 }
Caught(b) == [b EXCEPT !.failed = @ + 1]

\* finally { setDeleteProgress({ total: toDelete.length, done: i + 1 }) }, i++
IterationEnds(b) ==
    [b EXCEPT !.deleteProgress = [shown |-> TRUE, total |-> Len(b.toDelete),
                                  done |-> b.i + 1],
              !.i = @ + 1,
              !.pc = "loop"]

\* The handler up to the loop: the three early returns, or the list of the
\* selected records of the filtered set, setDeleting(true) and
\* setDeleteProgress({ total, done: 0 }).
HandleBulkDelete ==
    /\ bulk.pc = "idle"
    /\ LET f == bulk.filteredRecordings
           picked == {k \in 1..Len(f) : makeRecordKey(f[k], k - 1) \in bulk.selectedKeys}
           selectedCount == Cardinality(picked)
           toDelete == [n \in 1..Cardinality(picked) |->
                           f[CHOOSE k \in picked :
                                 Cardinality({j \in picked : j < k}) = n - 1]] IN
       IF Len(f) = 0 \/ selectedCount = 0 \/ ~bulk.confirmed \/ Len(toDelete) = 0
       THEN bulk' = [bulk EXCEPT !.pc = "returned"]
       ELSE bulk' = [bulk EXCEPT
                !.pc = "loop",
                !.toDelete = toDelete,
                !.deleting = TRUE,
                !.deleteProgress = [shown |-> TRUE, total |-> Len(toDelete), done |-> 0]]
    /\ UNCHANGED <<proxyVars, fetchAll, filterVars, tokenVars, dirVars, raised, hpc, response>>
    /\ UNCHANGED workVars

\* The loop up to its next await.  While it goes on: the timeout of the demo
\* mode, the delete request of the record, or, for a record without its ids,
\* the throw, the catch and the finally of the iteration.  When it is over:
\* the demo mode empties the table's selection and reaches the outer finally
\* (setDeleting(false)); the real mode awaits fetchRecordings(currentToken).
BulkLoop ==
    /\ bulk.pc = "loop"
    /\ bulk' =
         IF LoopGoesOn(bulk)
         THEN LET rec == bulk.toDelete[bulk.i + 1] IN
              IF bulk.demoMode THEN [bulk EXCEPT !.pc = "await"]
              ELSE IF MissingIds(rec, bulk.source) THEN IterationEnds(Caught(bulk))
              ELSE [bulk EXCEPT !.pc = "await", !.calls = Append(@, DeleteRequest(rec))]
         ELSE IF bulk.demoMode
              THEN [bulk EXCEPT !.pc = "done", !.deleting = FALSE]
              ELSE [bulk EXCEPT !.pc = "refresh"]
    /\ UNCHANGED <<proxyVars, fetchAll, filterVars, tokenVars, dirVars, raised, hpc, response>>
    /\ UNCHANGED workVars

\* The awaited step of an iteration settles: the timeout of the demo mode
\* fires, or the fetch resolves with res.ok, resolves without it (the handler
\* reads res.text() and throws), or rejects.  success += 1, or the catch;
\* then the finally of the iteration.
BulkSettled ==
    /\ bulk.pc = "await"
    /\ \E outcome \in IF bulk.demoMode THEN {"ok"} ELSE {"ok", "not ok", "rejected"} :
          bulk' = IF outcome = "ok"
                  THEN IterationEnds([bulk EXCEPT !.success = @ + 1])
                  ELSE IterationEnds(Caught(bulk))
    /\ UNCHANGED <<proxyVars, fetchAll, filterVars, tokenVars, dirVars, raised, hpc, response>>
    /\ UNCHANGED workVars

\* await fetchRecordings(currentToken) settles (fetchRecordings catches its
\* own errors); setSelectedKeys(new Set()); finally { setDeleting(false) }.
BulkRefreshed ==
    /\ bulk.pc = "refresh"
    /\ bulk' = [bulk EXCEPT !.pc = "done", !.deleting = FALSE]
    /\ UNCHANGED <<proxyVars, fetchAll, filterVars, tokenVars, dirVars, raised, hpc, response>>
    /\ UNCHANGED workVars

\* setTimeout(() => setDeleteProgress(null), 2000)
BulkProgressCleared ==
    /\ bulk.pc = "done"
    /\ bulk.deleteProgress.shown
    /\ bulk' = [bulk EXCEPT !.deleteProgress = [shown |-> FALSE, total |-> 0, done |-> 0]]
    /\ UNCHANGED <<proxyVars, fetchAll, filterVars, tokenVars, dirVars, raised, hpc, response>>
    /\ UNCHANGED workVars

\* The table holds up to MaxBulk phone or meeting recordings, each with or
\* without its id (and its meetingId); the user has selected some rows, runs
\* the demo mode or not, and confirms the dialog or not.
InitBulk ==
    /\ debug = ""
    /\ users = <<>>
    /\ hpc = "serving"
    /\ IdleFanout
    /\ IdleHosts
    /\ NoRequest
    /\ response = NoResponse
    /\ route = "none"
    /\ req = <<>>
    /\ ppc = "idle"
    /\ zoomRes = <<>>
    /\ sent = <<>>
    /\ fetchAll = [pc |-> "idle"]
    /\ \E source \in {"phone", "meetings"}, demoMode \in BOOLEAN, confirmed \in BOOLEAN :
       \E n \in 0..MaxBulk :
       \E hasId \in [1..n -> BOOLEAN] :
       \E hasMeetingId \in [1..n -> IF source = "meetings" THEN BOOLEAN ELSE {FALSE}] :
       \E rows \in SUBSET (1..n) :
          LET f == [k \in 1..n |->
                      [source |-> source,
                       id |-> IF hasId[k] THEN <<"r", k>> ELSE <<>>,
                       meetingId |-> IF hasMeetingId[k] THEN <<"m", k>> ELSE <<>>]] IN
          bulk = [pc |-> "idle", source |-> source, demoMode |-> demoMode,
                  confirmed |-> confirmed, filteredRecordings |-> f,
                  selectedKeys |-> {makeRecordKey(f[k], k - 1) : k \in rows},
                  toDelete |-> <<>>, i |-> 0, success |-> 0, failed |-> 0,
                  deleting |-> FALSE,
                  deleteProgress |-> [shown |-> FALSE, total |-> 0, done |-> 0],
                  calls |-> <<>>]

NextBulk ==
    HandleBulkDelete \/ BulkLoop \/ BulkSettled \/ BulkRefreshed \/ BulkProgressCleared

\* Every request and every timer of the browser settles in the end.
FairBulk == InitBulk /\ [][NextBulk]_vars /\ WF_vars(NextBulk)

(* ---------------------------------------------------------------------- *)
(* Properties of the fan-out (checked under Spec)                         *)
(* ---------------------------------------------------------------------- *)

\* The multiset of the elements of a list.
BagOfSeq(s) == [x \in Range(s) |-> Cardinality({k \in 1..Len(s) : s[k] = x})]

\* The index in the directory of the user with this email.
IndexOf(email) == email[2]

\* The users whose recordings request was answered 2xx with a JSON body, and
\* those whose request failed.
OkUsers == {i \in 1..Len(users) : served[i] = "ok"}
FailedUsers == {i \in 1..Len(users) : served[i] \notin {"none", "ok"}}

\* The recordings of user i, each tagged with its owner.
ExpectedOf(i) ==
    [k \in 1..Len(Recordings(i)) |->
        [uuid |-> Recordings(i)[k].uuid,
         host_id |-> Recordings(i)[k].host_id,
         owner_email |-> User(i).email,
         owner_name |-> IF i % 2 = 1 THEN <<"name", i>> ELSE User(i).email]]

\* The tagged recordings of the users i, i+1, ... that are in S, one user
\* after the other.
RECURSIVE ExpectedFrom(_, _)
ExpectedFrom(i, S) ==
    IF i > Len(users) THEN <<>>
    ELSE (IF i \in S THEN ExpectedOf(i) ELSE <<>>) \o ExpectedFrom(i + 1, S)

\* The multiset union of the recordings of the users in S, each tagged with
\* its owner.
ExpectedBag(S) == BagOfSeq(ExpectedFrom(1, S))

\* A meeting of the response without the two fields the enrichment adds.
StripHost(m) == [f \in DOMAIN m \ {"hostName", "hostEmail"} |-> m[f]]

StripAll(ms) == [k \in 1..Len(ms) |-> StripHost(ms[k])]

\* The per-user errors a response carries: `_errors` of the normal response,
\* `errors` of the debug response, none when the field is left out.
ErrorsOf(r) ==
    IF "_errors" \in DOMAIN r THEN r._errors
    ELSE IF "errors" \in DOMAIN r THEN r.errors
    ELSE <<>>

\* The fan-out has run and the handler is past (or able to pass) its join.
FanoutJoined ==
    /\ hpc \in {"fanout", "enriching", "responded"}
    /\ wpc # <<>>
    /\ \A w \in Workers : wpc[w] = "done"

\* The handler has answered a request whose fan-out ran.
AnsweredAfterFanout == hpc = "responded" /\ wpc # <<>>

\* C1: when the recordings requests of all enumerated users succeed, the
\* aggregated meetings are, as a multiset, exactly the union of the meetings
\* returned for each user, each tagged with the email (and name) of the user
\* whose request returned it; the same holds of the meetings of the response.
C1_AllSucceedUnion ==
    (FanoutJoined /\ \A i \in 1..Len(users) : served[i] = "ok") =>
        /\ BagOfSeq(meetings) = ExpectedBag(1..Len(users))
        /\ (hpc = "responded" /\ debug = "") =>
              /\ response.kind = "meetings"
              /\ BagOfSeq(StripAll(response.meetings)) = ExpectedBag(1..Len(users))

\* More users than workers, all successful, answered, and the meetings are
\* not in the order of the users.
C1_Witness ==
    /\ AnsweredAfterFanout
    /\ response.kind = "meetings"
    /\ Len(users) > concurrency
    /\ OkUsers = 1..Len(users)
    /\ meetings[1].owner_email # User(1).email

\* C2: when exactly one of N > 1 users has a failing recordings request, the
\* handler answers 200; the result holds all recordings of the other N-1 users
\* and exactly one error entry, whose userId is the failing user's id.
C2_OneFailure ==
    (AnsweredAfterFanout /\ Len(users) > 1 /\ Cardinality(FailedUsers) = 1) =>
        /\ response.status = 200
        /\ response.kind \in {"meetings", "user-recordings"}
        /\ OkUsers = (1..Len(users)) \ FailedUsers
        /\ BagOfSeq(meetings) = ExpectedBag((1..Len(users)) \ FailedUsers)
        /\ response.kind = "meetings" =>
              BagOfSeq(StripAll(response.meetings))
                  = ExpectedBag((1..Len(users)) \ FailedUsers)
        /\ Len(errors) = 1
        /\ \A i \in FailedUsers : errors[1].userId = User(i).id
        /\ ErrorsOf(response) = errors

\* u1, u2, u3; u2 answers 500; u1 has two meetings and u3 one.
C2_Witness ==
    /\ AnsweredAfterFanout
    /\ Len(users) = 3
    /\ FailedUsers = {2}
    /\ response.kind = "meetings"
    /\ response.status = 200
    /\ Len(response.meetings) = 3
    /\ Len(ErrorsOf(response)) = 1
    /\ ErrorsOf(response)[1].userId = User(2).id
    /\ ErrorsOf(response)[1].status = 500

\* C3: at every moment the number of recordings requests started and not yet
\* completed is at most `concurrency`.
C3_BoundedInFlight == InFlight <= concurrency

\* `concurrency` requests in flight after a worker has moved on to a user
\* beyond the first batch.
C3_Witness ==
    /\ Len(users) > concurrency
    /\ idx = Len(users)
    /\ InFlight = concurrency

\* C4: min(concurrency, len(users)) workers are started; the cursor stays in
\* 0..len(users); the indices below the cursor have been claimed exactly once
\* and no other; two workers never hold the same index at a time; and after
\* the join every index has been claimed.
C4_AtomicClaim ==
    (hpc # "enumerated" /\ debug # "users") =>
        /\ nworkers = (IF Len(users) < concurrency THEN Len(users) ELSE concurrency)
        /\ Len(wpc) = nworkers
        /\ idx \in 0..Len(users)
        /\ \A i \in 0..MaxUsers : claimed[i] = (IF i < idx THEN 1 ELSE 0)
        /\ \A v, w \in Workers :
              (v # w /\ wpc[v] # "done" /\ wpc[w] # "done") => wi[v] # wi[w]
        /\ FanoutJoined => idx = Len(users)

\* The join of a fan-out over more users than workers.
C4_Witness ==
    /\ FanoutJoined
    /\ Len(users) > concurrency
    /\ Len(wpc) = concurrency
    /\ \A i \in 0..(Len(users) - 1) : claimed[i] = 1

\* C5: once the handler is past the fan-out (the debug "user-recordings"
\* response, the enrichment, the final response), the cursor equals
\* len(users) and no recordings request is in flight.
C5_JoinAfterAll ==
    (hpc = "enriching" \/ AnsweredAfterFanout) =>
        /\ idx = Len(users)
        /\ InFlight = 0
        /\ \A w \in Workers : wpc[w] = "done"

\* The handler in the enrichment after a fan-out over more users than workers.
C5_Witness ==
    /\ hpc = "enriching"
    /\ Len(users) > concurrency
    /\ Len(meetings) > 0

\* C6: a failing recordings request never stops a worker nor its siblings: a
\* worker leaves its loop only when no user is left; the errors hold exactly
\* one entry per failed user and none for another user, every meeting is
\* owned by a user that succeeded, and after the join every user has been
\* served and the meetings are exactly those of the users that succeeded.
C6_FailureIsolation ==
    /\ \A w \in Workers : wpc[w] = "done" => idx = Len(users)
    /\ Len(errors) = Cardinality(FailedUsers)
    /\ {errors[k].userId : k \in 1..Len(errors)} = {User(i).id : i \in FailedUsers}
    /\ \A k \in 1..Len(meetings) : served[IndexOf(meetings[k].owner_email)] = "ok"
    /\ FanoutJoined => OkUsers \cup FailedUsers = 1..Len(users)
    /\ (FanoutJoined /\ hpc \in {"fanout", "responded"}) =>
          BagOfSeq(meetings) = ExpectedBag(OkUsers)
    /\ AnsweredAfterFanout => response.status = 200

\* Two users failed, and a worker whose first user failed has gone on to a
\* user beyond the first batch, whose meetings are in the result.
C6_Witness ==
    /\ FanoutJoined
    /\ Cardinality(FailedUsers) >= 2
    /\ \E w \in Workers :
          /\ w \in FailedUsers
          /\ wi[w] >= concurrency
          /\ wi[w] + 1 \in OkUsers
          /\ \E k \in 1..Len(meetings) : meetings[k].owner_email = User(wi[w] + 1).email


(* ---------------------------------------------------------------------- *)
(* Properties of the host cache (checked under SpecHost)                  *)
(* ---------------------------------------------------------------------- *)

\* The host ids some running getHostInfo call is looking up.
PendingHosts == {c.host : c \in hcalls}

\* The meetings attachHostsToRecordings returned carry, each, the identity
\* the cache holds for its host.
ResultFromCache ==
    \A k \in 1..Len(ainput) :
        LET id == ainput[k].host_id
            host == IF id = "" THEN [name |-> "Unknown", email |-> ""]
                    ELSE hostCache[id]
        IN  /\ aresult[k].hostName = host.name
            /\ aresult[k].hostEmail = host.email

\* C7: resolving a host id again, after a resolve of it has returned, performs
\* no further upstream lookup (at most one lookup per id in all), and returns
\* the value the first resolve cached, found or fallback.
C7_ResolveIdempotent ==
    /\ \A h \in HostIds :
          /\ hostFetches[h] <= 1
          /\ h \in DOMAIN hostCache => (hostFetches[h] = 1 /\ h \notin PendingHosts)
    /\ apc = "returned" =>
          /\ Len(aresult) = Len(ainput)
          /\ UniqueHostIds(ainput) \subseteq DOMAIN hostCache
          /\ ResultFromCache

\* A second request has resolved again, without a lookup, a host id that the
\* first request looked up successfully and one whose lookup failed.
C7_Witness ==
    /\ ncalls = 2
    /\ apc = "returned"
    /\ cache0 = {"h1", "h2"}
    /\ UniqueHostIds(ainput) = {"h1", "h2"}
    /\ callFetches = 0
    /\ failedHosts = {"h2"}
    /\ hostCache["h1"].name = "Ann Lee"

\* C8: getHostInfo never throws; a host id whose lookup failed (non-2xx,
\* unparsable body, rejected fetch) is cached as {name: "Unknown", email: ""},
\* is never looked up again, and every meeting of that host gets hostName
\* "Unknown" and hostEmail "".
C8_FailureCached ==
    /\ apc # "threw"
    /\ \A h \in failedHosts :
          /\ h \in DOMAIN hostCache
          /\ hostCache[h] = [name |-> "Unknown", email |-> ""]
          /\ hostFetches[h] = 1
          /\ apc = "returned" =>
                \A k \in 1..Len(ainput) :
                    ainput[k].host_id = h =>
                        /\ aresult[k].hostName = "Unknown"
                        /\ aresult[k].hostEmail = ""

\* The lookup of h1 failed in the first request; the second request, all of
\* its meetings hosted by h1, found the fallback in the cache.
C8_Witness ==
    /\ ncalls = 2
    /\ apc = "returned"
    /\ "h1" \in failedHosts
    /\ "h1" \in cache0
    /\ Len(ainput) = MaxMeetings
    /\ \A k \in 1..Len(ainput) :
          ainput[k].host_id = "h1" /\ aresult[k].hostName = "Unknown"
    /\ hostFetches["h1"] = 1

\* C9: one attachHostsToRecordings call issues at most as many upstream
\* lookups as there are distinct non-empty host ids among its meetings that
\* the cache did not hold when it began, however many meetings there are, and
\* leaves a cache entry for each of these ids.
C9_LookupsPerDistinctHost ==
    LET distinct == {ainput[k].host_id : k \in 1..Len(ainput)} \ {""} IN
    /\ callFetches <= Cardinality(distinct \ cache0)
    /\ apc = "returned" => distinct \subseteq DOMAIN hostCache

\* A full list of meetings of one host, not cached before: one lookup, one
\* cache entry.
C9_Witness ==
    /\ apc = "returned"
    /\ Len(ainput) = MaxMeetings
    /\ \A k \in 1..Len(ainput) : ainput[k].host_id = "h1"
    /\ cache0 = {}
    /\ callFetches = 1
    /\ DOMAIN hostCache = {"h1"}

\* C10: the attach pass issues no network call: each of its getHostInfo
\* calls is a cache hit or has an empty host id, the pre-warm having returned
\* for every distinct host id before the mapping starts.
C10_AttachPassNoNetwork ==
    /\ apc # "attaching"
    /\ \A c \in hcalls : c.origin = "prewarm"
    /\ (apc = "prewarm" /\ hcalls = {}) =>
          \A k \in 1..Len(ainput) :
              ainput[k].host_id = "" \/ ainput[k].host_id \in DOMAIN hostCache

\* The attach pass has run over meetings of two hosts and one without host,
\* none cached before: the two lookups are those of the pre-warm.
C10_Witness ==
    /\ apc = "returned"
    /\ cache0 = {}
    /\ {ainput[k].host_id : k \in 1..Len(ainput)} = {"", "h1", "h2"}
    /\ callFetches = 2
    /\ Len(aresult) = Len(ainput)

(* ---------------------------------------------------------------------- *)
(* Properties of the filters (checked under SpecFilter)                   *)
(* ---------------------------------------------------------------------- *)

\* The search parameters of a request, its date range left aside.
SearchOf(p) == [p EXCEPT !.from = <<>>, !.to = <<>>]

\* Two characters that differ at most in their case.
SameLetter(a, b) ==
    \/ a = b
    \/ \E k \in 1..Len(UpperCase) : {a, b} = {UpperCase[k], LowerCase[k]}

\* t occurs in s, the case of the letters set aside.
ContainsFold(s, t) ==
    \E i \in 0..(Len(s) - Len(t)) : \A k \in 1..Len(t) : SameLetter(s[i + k], t[k])

Standup == <<"s", "t", "a", "n", "d", "u", "p">>

\* The handler has answered with the list of meetings.
AnsweredMeetings == hpc = "responded" /\ response.kind = "meetings"

\* C11: without owner_email, topic and q (absent or empty) the response holds
\* the enriched meetings unchanged; with topic=standup alone it holds exactly
\* the meetings whose topic contains "standup" in whatever case, in their
\* order, no more and no fewer.
C11_FilterNoneAndTopic ==
    AnsweredMeetings =>
        /\ (SearchOf(params) = NoParams) => response.meetings = aresult
        /\ (SearchOf(params) = [NoParams EXCEPT !.topic = Standup]) =>
              response.meetings =
                  SelectSeq(aresult, LAMBDA m : ContainsFold(OrEmpty(m, "topic"), Standup))

\* topic=standup keeps "Day Standup" and drops "stand up", whose owner is
\* called standup.
C11_Witness ==
    /\ AnsweredMeetings
    /\ params = [NoParams EXCEPT !.topic = Standup]
    /\ aresult = <<FilterMeeting(4), FilterMeeting(1)>>
    /\ response.meetings = <<FilterMeeting(1)>>

\* topic, owner email, owner name, host id, host name and host email of a
\* meeting, one after the other with a blank between them.
Concatenation(m) ==
    OrEmpty(m, "topic") \o <<" ">> \o OrEmpty(m, "owner_email") \o <<" ">>
        \o OrEmpty(m, "owner_name") \o <<" ">> \o OrEmpty(m, "host_id") \o <<" ">>
        \o OrEmpty(m, "hostName") \o <<" ">> \o OrEmpty(m, "hostEmail")

\* Meeting m passes every filter that request p carries.
Passes(m, p) ==
    /\ p.owner_email # <<>> => ContainsFold(OrEmpty(m, "owner_email"), p.owner_email)
    /\ p.topic # <<>> => ContainsFold(OrEmpty(m, "topic"), p.topic)
    /\ p.q # <<>> => ContainsFold(Concatenation(m), p.q)

\* C12: the filters are ANDed: a meeting is in the response iff it passes
\* every filter that is not empty, owner_email against the owner email, topic
\* against the topic, q against the concatenation of topic, owner email,
\* owner name, host id, host name and host email, all without regard to case.
C12_FiltersAnded ==
    AnsweredMeetings =>
        response.meetings = SelectSeq(aresult, LAMBDA m : Passes(m, params))

\* Three filters at once: one meeting passes all (q only across owner name
\* and host id), one passes all but the topic filter.
C12_Witness ==
    /\ AnsweredMeetings
    /\ SearchOf(params) = [NoParams EXCEPT
                               !.owner_email = <<"A", "N", "N">>,
                               !.topic = <<"S", "t", "a", "n", "d", "U", "p">>,
                               !.q = <<"n", " ", "h", "1">>]
    /\ aresult = <<FilterMeeting(1), FilterMeeting(3)>>
    /\ response.meetings = <<FilterMeeting(1)>>

(* ---------------------------------------------------------------------- *)
(* Properties of a whole request (checked under SpecRequest)              *)
(* ---------------------------------------------------------------------- *)

\* No request to /users/{id}/recordings has been issued.
NoRecordingsFetch == wpc = <<>> /\ \A i \in 0..MaxUsers : claimed[i] = 0

\* No getHostInfo call, and no request to /users/{hostId}.
NoHostLookup ==
    /\ ncalls = 0
    /\ hcalls = {}
    /\ \A h \in HostIds : hostFetches[h] = 0

\* The users the directory holds, in the order of its listing.
Listing == [i \in 1..directory |-> User(i)]

\* C13: with debug=users the handler issues no recordings request and no
\* host lookup, whatever the number of users, and what it returns on success
\* is the enumerated user list, with its length and the date range of the
\* request, and nothing of the aggregation.
C13_DebugUsersListsOnly ==
    debug = "users" =>
        /\ NoRecordingsFetch
        /\ NoHostLookup
        /\ (hpc = "responded" /\ response.status = 200) =>
              /\ response.kind = "users"
              /\ DOMAIN response = {"kind", "status", "from", "to", "total_users",
                                     "users"}
              /\ response.users = Listing
              /\ response.total_users = directory

\* debug=users answered with a listing of more than one page.
C13_Witness ==
    /\ debug = "users"
    /\ hpc = "responded"
    /\ response.kind = "users"
    /\ Len(response.users) > PageLen

\* C14: with debug=user-recordings and at least one user the response holds
\* one count per user whose request succeeded, equal to the number of meetings
\* returned for that user, and the error list; it holds no meetings, and no
\* host lookup is made.
C14_DebugUserRecordingsCounts ==
    debug = "user-recordings" =>
        /\ NoHostLookup
        /\ (hpc = "responded" /\ response.status = 200 /\ Len(users) > 0) =>
              /\ response.kind = "user-recordings"
              /\ "meetings" \notin DOMAIN response
              /\ Len(response.per_user) = Cardinality(OkUsers)
              /\ \A i \in OkUsers : \E k \in 1..Len(response.per_user) :
                     /\ response.per_user[k].userId = User(i).id
                     /\ response.per_user[k].meetingCount = Len(Recordings(i))
              /\ ErrorsOf(response) = errors
              /\ Len(errors) = Cardinality(FailedUsers)

\* Two users counted (one of them with two meetings), one user failed.
C14_Witness ==
    /\ debug = "user-recordings"
    /\ hpc = "responded"
    /\ response.kind = "user-recordings"
    /\ Len(response.per_user) >= 2
    /\ Len(ErrorsOf(response)) = 1
    /\ \E k \in 1..Len(response.per_user) : response.per_user[k].meetingCount = 2

\* C15: an exception that no inner handler has caught, at whatever stage it
\* is raised, ends in the handler's catch block: the handler answers
\* { error: true, status: 500 } and its promise never rejects.
C15_ExceptionsAnswered500 ==
    /\ hpc # "rejected"
    /\ raised # "none" =>
          /\ hpc = "responded"
          /\ response = [kind |-> "error", status |-> 500]
    /\ ((\E w \in Workers : wpc[w] = "threw") \/ apc = "threw") =>
          (hpc = "responded" => response = [kind |-> "error", status |-> 500])

\* The body of a later directory page cannot be read.
C15_Witness ==
    /\ raised = "directory-body"
    /\ Len(users) > 0
    /\ response.status = 500

\* The first recordings request has been issued.
FetchIssued == \E i \in 0..MaxUsers : claimed[i] > 0

\* The handler has answered 200 with the meetings (the counts, in debug mode
\* user-recordings) and the per-user errors.
Answered200 ==
    /\ hpc = "responded"
    /\ response.status = 200
    /\ response.kind = IF debug = "user-recordings" THEN "user-recordings" ELSE "meetings"
    /\ ErrorsOf(response) = errors

\* C16: a top-level error is possible only before the fan-out starts: once
\* the first recordings request is issued the response is never an error,
\* whatever recordings requests and host lookups fail, and the request ends
\* in a 200 response with the meetings and the per-user errors.
C16_NoAbortOnceAggregating ==
    /\ [](FetchIssued => response.kind # "error" /\ hpc # "rejected")
    /\ (FetchIssued ~> Answered200)

\* A recordings request and a host lookup failed, and the answer is 200.
C16_Witness ==
    /\ Answered200
    /\ response.kind = "meetings"
    /\ Len(ErrorsOf(response)) > 0
    /\ failedHosts # {}
    /\ Len(response.meetings) > 0

\* The directory loop has ended without a failure.
EnumerationDone ==
    \/ hpc \in {"enumerated", "fanout", "enriching"}
    \/ hpc = "responded" /\ response.status = 200

\* C17: the pages are requested one at a time, the first without token and
\* each further one with the next_page_token of the page before it; the loop
\* ends at the first page without token; each page is requested once, and
\* `users` is the concatenation of the pages in their order.
C17_PagesConcatenated ==
    /\ pageRequests # <<>> => pageRequests[1] = <<>>
    /\ \A k \in 1..(Len(pageRequests) - 1) :
          /\ DirectoryPage(directory, pageRequests[k]).next_page_token # <<>>
          /\ pageRequests[k + 1] = DirectoryPage(directory, pageRequests[k]).next_page_token
    /\ hpc \in {"directory", "directory-body"} =>
          users = SubSeq(Listing, 1, (Len(pageRequests) - 1) * PageLen)
    /\ EnumerationDone =>
          /\ DirectoryPage(directory, Last(pageRequests)).next_page_token = <<>>
          /\ Len(pageRequests) = NumPages(directory)
          /\ users = Listing

\* Two pages, the second one not full.
C17_Witness ==
    /\ hpc = "enumerated"
    /\ Len(pageRequests) = 2
    /\ Len(users) = PageLen + 1

\* The upstream has refused a directory page.
PageRefused == response.kind = "error" /\ raised = "none"

\* C18: a directory page that is answered non-2xx, the first or a later one,
\* aborts the request: the response is a top-level error with the status of
\* the upstream, it holds none of the users collected so far, and no
\* recordings request and no host lookup is issued.  (A page request that
\* fails without an answer that can be read aborts the request likewise, with
\* status 500.)
C18_PageFailureAborts ==
    /\ PageRefused =>
          /\ hpc = "responded"
          /\ response = [kind |-> "error",
                          status |-> DirectoryStatus(Len(pageRequests))]
          /\ NoRecordingsFetch
          /\ NoHostLookup
    /\ raised \in {"directory-network", "directory-body"} =>
          /\ response.kind = "error"
          /\ NoRecordingsFetch
          /\ NoHostLookup

\* The second page is refused after the users of the first were collected.
C18_Witness ==
    /\ PageRefused
    /\ Len(pageRequests) = 2
    /\ Len(users) = PageLen
    /\ response.status = DirectoryStatus(2)

\* C20: when the credential exchange is answered non-2xx, getZoomAccessToken
\* throws, and the handler issues no directory request and no recordings
\* request and answers with a top-level error.
C20_TokenFailureAborts ==
    tlast.kind = "token-status" =>
        /\ raised = "token-status"
        /\ hpc = "responded"
        /\ response.kind = "error"
        /\ pageRequests = <<>>
        /\ users = <<>>
        /\ NoRecordingsFetch
        /\ NoHostLookup

\* The exchange of a request for a directory with users was refused.
C20_Witness ==
    /\ tlast.kind = "token-status"
    /\ directory > 0
    /\ hpc = "responded"
    /\ response.status = 500

(* ---------------------------------------------------------------------- *)
(* Property of the token cache (checked under SpecToken)                  *)
(* ---------------------------------------------------------------------- *)

\* C19: a getZoomAccessToken call returns the cached token, with no
\* exchange, exactly when a token is cached and the time of the call is more
\* than 30000 ms before its expiry; otherwise it makes one exchange, and when
\* that succeeds it stores the token it got, with the time of storing plus
\* expires_in (3600 s when the body has none) as expiry, and returns it.
C19_CachedTokenUntilMargin ==
    tlast.kind # "none" =>
        /\ tlast.fetches = 0 <=>
              (tlast.tok0 # <<>> /\ tlast.at < tlast.exp0 - 30000)
        /\ tlast.fetches = 0 =>
              /\ tlast.kind = "hit"
              /\ tlast.result = tlast.tok0
              /\ tlast.tok1 = tlast.tok0
              /\ tlast.exp1 = tlast.exp0
        /\ tlast.fetches # 0 => tlast.fetches = 1
        /\ tlast.kind = "stored" =>
              /\ tlast.tok1 = (IF "access_token" \in DOMAIN tlast.data
                                THEN tlast.data.access_token ELSE <<>>)
              /\ tlast.exp1 = tlast.end
                    + (IF "expires_in" \in DOMAIN tlast.data
                       THEN tlast.data.expires_in ELSE 3600) * 1000
              /\ tlast.result = tlast.tok1

\* The token of an exchange without expires_in is returned one millisecond
\* before the margin of its expiry begins.
C19_Witness ==
    /\ tlast.kind = "hit"
    /\ tlast.exp0 = 3600 * 1000
    /\ tlast.at = tlast.exp0 - 30001

(* ---------------------------------------------------------------------- *)
(* Properties of the caches under overlapping requests (SpecShared)       *)
(* ---------------------------------------------------------------------- *)

\* What call k of getZoomAccessToken writes to the cache when its exchange
\* succeeds at time t.
TokenWritten(k, t) ==
    LET body == TokenBody(k) IN
    [tok |-> IF "access_token" \in DOMAIN body THEN body.access_token ELSE <<>>,
     exp |-> t + (IF "expires_in" \in DOMAIN body THEN body.expires_in ELSE 3600) * 1000]

\* The getHostInfo calls for host h that have not returned yet.
LookupsPending(h) == Cardinality({c \in hcalls : c.host = h})

\* What a lookup of host h writes to the cache when it succeeds.
Identity(h) ==
    IF h = "h1" THEN [name |-> "Ann Lee", email |-> "ann@x"]
    ELSE [name |-> "Unknown", email |-> ""]

C22_NormalResponseShape ==
    AnsweredMeetings =>
        /\ response.status = 200
        /\ {"from", "to", "total_records", "meetings"} \subseteq DOMAIN response
        /\ response.from = params.from
        /\ response.to = params.to
        /\ response.meetings = SelectSeq(aresult, LAMBDA m : Passes(m, params))
        /\ response.total_records = Len(response.meetings)
        /\ "_errors" \in DOMAIN response <=> Len(errors) > 0
        /\ "_errors" \in DOMAIN response => response._errors = errors

\* A request with a date range and a topic filter: one of two meetings is
\* left, the total is 1, and the error of one user is reported.
C22_Witness ==
    /\ AnsweredMeetings
    /\ params.from # <<>>
    /\ params.topic # <<>>
    /\ Len(aresult) = 2
    /\ response.total_records = 1
    /\ "_errors" \in DOMAIN response
    /\ Len(response._errors) = 1

(* ---------------------------------------------------------------------- *)
(* More properties of a whole request (checked under SpecRequest)         *)
(* ---------------------------------------------------------------------- *)

\* What makes getZoomAccessToken or the directory loop throw.
AuthOrEnumerationThrew ==
    raised \in {"token-network", "token-status", "token-json",
                "directory-network", "directory-body"}

\* C23: the handler answers with a top-level error only when the token
\* exchange or the enumeration of the users failed, and then before any
\* recordings request; once the fan-out has run, the normal response is a 200
\* with all recordings of the users that succeeded and one error per user that
\* failed -- no meetings and an error for every user when all of them failed.
C23_BestEffortPartialResults ==
    /\ (hpc = "responded" /\ response.kind = "error") =>
          /\ NoRecordingsFetch
          /\ AuthOrEnumerationThrew \/ PageRefused
    /\ hpc # "rejected"
    /\ (AnsweredAfterFanout /\ debug = "") =>
          /\ response.kind = "meetings"
          /\ response.status = 200
          /\ BagOfSeq(StripAll(response.meetings)) = ExpectedBag(OkUsers)
          /\ ErrorsOf(response) = errors
          /\ {errors[k].userId : k \in 1..Len(errors)} = {User(i).id : i \in FailedUsers}
          /\ Len(errors) = Cardinality(FailedUsers)
          /\ OkUsers = {} =>
                /\ response.meetings = <<>>
                /\ response.total_records = 0
                /\ Len(ErrorsOf(response)) = Len(users)

\* Each of the four users of the directory failed, in its own way; the answer
\* is a 200 without meetings and with four errors.
C23_Witness ==
    /\ AnsweredAfterFanout
    /\ debug = ""
    /\ Len(users) = MaxDirectory
    /\ OkUsers = {}
    /\ response.status = 200
    /\ response.meetings = <<>>
    /\ Len(ErrorsOf(response)) = MaxDirectory

\* The user whose recordings page held meeting m (the upstream's ids name it).
FetchedFor(m) == m.uuid[1]

\* Meeting m carries the email and the name of user i as its owner.
OwnedBy(m, i) ==
    /\ m.owner_email = <<"mail", i>>
    /\ m.owner_name = (IF i % 2 = 1 THEN <<"name", i>> ELSE <<"mail", i>>)

\* C24: at every point of the fan-out, and in the response, every record of
\* the meetings list carries as its one owner the enumerated user whose
\* recordings request returned it, whatever the other workers did while that
\* request was under way.
C24_OneOwnerTag ==
    /\ \A k \in 1..Len(meetings) :
          /\ FetchedFor(meetings[k]) \in 1..Len(users)
          /\ served[FetchedFor(meetings[k])] = "ok"
          /\ OwnedBy(meetings[k], FetchedFor(meetings[k]))
    /\ AnsweredMeetings =>
          \A k \in 1..Len(response.meetings) :
              OwnedBy(response.meetings[k], FetchedFor(response.meetings[k]))

\* The fan-out is under way: the requests for the second and the fourth user
\* are still suspended while the meetings of the third and of the first are
\* in the list, the third's first.
C24_Witness ==
    /\ hpc = "fanout"
    /\ Len(wpc) = 4
    /\ Len(meetings) = 3
    /\ wpc[2] \in {"fetch", "text"}
    /\ wpc[4] \in {"fetch", "text"}
    /\ FetchedFor(meetings[1]) = 3
    /\ FetchedFor(meetings[3]) = 1

\* The records of list ms that the recordings page of user i held, in the
\* order of the list.
RecordsOf(ms, i) == SelectSeq(ms, LAMBDA m : FetchedFor(m) = i)

\* The ids of the meetings of a list, in its order.
Uuids(ms) == [k \in 1..Len(ms) |-> ms[k].uuid]

\* C25: the meetings of one user stand in the meetings list, and in the
\* enriched meetings of the response, in the order of that user's upstream
\* page, wherever the meetings of the other users have come to stand.
C25_PageOrderKept ==
    \A i \in 1..Len(users) :
        /\ Uuids(RecordsOf(meetings, i))
              = (IF served[i] = "ok" THEN Uuids(Recordings(i)) ELSE <<>>)
        /\ AnsweredMeetings =>
              Uuids(RecordsOf(response.meetings, i)) = Uuids(RecordsOf(meetings, i))

\* The two meetings of the first user stand in the response behind the
\* meeting of the third, in the order of their page.
C25_Witness ==
    /\ AnsweredMeetings
    /\ Len(response.meetings) >= 3
    /\ response.meetings[1].uuid = <<3, 1>>
    /\ response.meetings[2].uuid = <<1, 1>>
    /\ response.meetings[3].uuid = <<1, 2>>
    /\ response.meetings[3].hostName = "Ann Lee"

\* The phase of the request the handler is in: Idle, (token exchange under
\* way), TokenAcquired with the directory loop running, UsersEnumerated,
\* Aggregating, Enriching, and Responded (the filters run in the step that
\* responds).
Phase(pc) ==
    CASE pc = "idle" -> 0
      [] pc = "token" -> 1
      [] pc \in {"directory", "directory-body"} -> 2
      [] pc = "enumerated" -> 3
      [] pc = "fanout" -> 4
      [] pc = "enriching" -> 5
      [] OTHER -> 6

\* A request to /users/{hostId} has been issued.
HostLookupIssued == \E h \in HostIds : hostFetches[h] > 0

\* C26: the handler moves through its phases in the order Idle, TokenAcquired,
\* UsersEnumerated, Aggregating, Enriching, Filtering, Responded and never
\* back; no directory page is requested before getZoomAccessToken has
\* returned the token, no recordings request is issued before the last page
\* of the directory has been received, and no host lookup before every worker
\* of the fan-out has returned.
C26_PhasesInOrder ==
    /\ [][Phase(hpc') >= Phase(hpc)]_vars
    /\ [](pageRequests # <<>> =>
             /\ Phase(hpc) >= 2
             /\ tlast.kind \in {"hit", "stored"}
             /\ token = tlast.result)
    /\ [](~NoRecordingsFetch =>
             /\ Phase(hpc) >= 4
             /\ nextPageToken = <<>>
             /\ Len(pageRequests) = NumPages(directory)
             /\ users = [i \in 1..directory |-> User(i)])
    /\ []((HostLookupIssued \/ apc # "idle") =>
             /\ Phase(hpc) >= 5
             /\ wpc # <<>>
             /\ \A w \in Workers : wpc[w] = "done"
             /\ idx = Len(users))

\* A request that went through every phase: the token was exchanged, the
\* directory came in two pages, the fan-out ran, a host was looked up, and the
\* meetings were answered.
C26_Witness ==
    /\ AnsweredMeetings
    /\ tlast.kind = "stored"
    /\ Len(pageRequests) = 2
    /\ Len(wpc) > 0
    /\ hostFetches["h1"] = 1
    /\ Len(response.meetings) > 0

(* ---------------------------------------------------------------------- *)
(* Termination of a request (checked under HangRequest)                   *)
(* ---------------------------------------------------------------------- *)

\* The first worker is waiting for the answer to a recordings request.
FirstFetchPending == 1 \in Workers /\ wpc[1] = "fetch"

\* C27: nothing ends the fan-out but the return of every worker.  When every
\* network call settles (the recordings requests of the first worker too,
\* each at some time), the handler responds in the end; when a recordings
\* request of the first worker stays unanswered for ever, the handler never
\* responds, whatever the other workers have done.
C27_NoTimeout ==
    /\ ([]<>~FirstFetchPending) => <>(hpc = "responded")
    /\ (<>[]FirstFetchPending) => [](response = NoResponse /\ hpc # "responded")

\* The request of the first user is unanswered; the other workers have
\* returned, every other user is served and their meetings are in the list;
\* there is no response.
C27_Witness ==
    /\ hpc = "fanout"
    /\ Len(users) = MaxDirectory
    /\ wpc[1] = "fetch"
    /\ \A w \in Workers \ {1} : wpc[w] = "done"
    /\ \A i \in 2..Len(users) : served[i] # "none"
    /\ Len(meetings) > 0
    /\ response = NoResponse

\* The date range a recordings request carries: its from and its to, each
\* absent when the request names none.
RangeOf(r) ==
    [from |-> IF "from" \in DOMAIN r THEN r.from ELSE <<>>,
     to |-> IF "to" \in DOMAIN r THEN r.to ELSE <<>>]

\* The users whose recordings page came with the token of a next page.
MoreUpstream == {i \in 1..Len(users) : RecordingsBody(i).next_page_token # <<>>}

\* C28: the handler issues one recordings request per claimed user, in the
\* order of the directory, with page_size 50, the date range of the request
\* and no page token, and after the join one per enumerated user; a page that
\* comes with the token of a next page is followed by no further request:
\* the list holds the meetings of that one page for the user, and no error
\* entry names the user.
C28_OnePagePerUser ==
    /\ Len(requested) = idx
    /\ \A k \in 1..Len(requested) :
          /\ requested[k].user = users[k].id
          /\ requested[k].page_size = 50
          /\ RangeOf(requested[k]) = [from |-> params.from, to |-> params.to]
          /\ "next_page_token" \notin DOMAIN requested[k]
    /\ FanoutJoined => Len(requested) = Len(users)
    /\ \A i \in MoreUpstream \cap OkUsers :
          /\ Len(RecordsOf(meetings, i)) = Len(RecordingsBody(i).meetings)
          /\ \A k \in 1..Len(errors) : errors[k].userId # users[i].id

\* A request with a date range is answered; the pages of the first and the
\* fourth user came with the token of a next page, and four requests were
\* sent.
C28_Witness ==
    /\ hpc = "responded"
    /\ response.kind = "meetings"
    /\ params.from # <<>>
    /\ params.to # <<>>
    /\ {1, 4} \subseteq MoreUpstream \cap OkUsers
    /\ Len(requested) = 4
    /\ "from" \in DOMAIN requested[4]

\* The error entry the answer to the recordings request of user i leads to.
ErrorFor(i) ==
    CASE served[i] = "status"   -> ErrorEntry(User(i), 500, "status")
      [] served[i] = "non-json" -> ErrorEntry(User(i), 200, "non-json")
      [] OTHER                  -> ErrorEntry(User(i), 0, "error")

\* C29: what the upstream has answered for each user (served) fixes the
\* meetings list as a multiset and the error list as a set of one entry per
\* failed user, whatever the order in which the answers arrived; the order
\* of the list is not fixed by it.
C29_OnlyOrderDependsOnScheduling ==
    /\ BagOfSeq(meetings) = ExpectedBag(OkUsers)
    /\ Range(errors) = {ErrorFor(i) : i \in FailedUsers}
    /\ Len(errors) = Cardinality(FailedUsers)
    /\ FanoutJoined => OkUsers \cup FailedUsers = 1..Len(users)

\* The same answers as in a run in directory order (the second user failed,
\* the others answered), but the meetings of the fourth user stand first and
\* those of the first user last.
C29_Witness ==
    /\ FanoutJoined
    /\ Len(users) = 4
    /\ FailedUsers = {2}
    /\ Len(meetings) = 5
    /\ FetchedFor(meetings[1]) = 4
    /\ FetchedFor(meetings[5]) = 1

\* Worker w reads, in this step, a 2xx body that is no JSON.
ReadsNonJson(w) ==
    /\ wpc[w] = "text"
    /\ served[wi[w] + 1] = "none"
    /\ served'[wi[w] + 1] = "non-json"

\* The entries of a list of errors or of per-user counts that name user i.
EntriesOf(list, i) == SelectSeq(list, LAMBDA e : e.userId = User(i).id)

\* C30: the step in which a worker reads a 2xx recordings body that is no
\* JSON appends one error entry for the worker's user, with the status of
\* the response, leaves the meetings and the per-user counts as they are and
\* the request unanswered, and takes the worker to the next unclaimed user
\* (or to its end when there is none); and a user so answered has one error
\* entry, no meeting in the list and no per-user count from then on.
C30_NonJsonIsPerUserFailure ==
    /\ [][\A w \in Workers : ReadsNonJson(w) =>
             /\ errors' = Append(errors,
                    [userId |-> users[wi[w] + 1].id,
                     userEmail |-> users[wi[w] + 1].email,
                     status |-> 200, what |-> "non-json"])
             /\ meetings' = meetings
             /\ perUserSummary' = perUserSummary
             /\ hpc' = "fanout"
             /\ response' = NoResponse
             /\ IF idx < Len(users)
                THEN /\ wpc'[w] = "fetch"
                     /\ wi'[w] = idx
                     /\ idx' = idx + 1
                ELSE /\ wpc'[w] = "done"
                     /\ idx' = idx]_vars
    /\ [](\A i \in 1..Len(users) : served[i] = "non-json" =>
             /\ Len(EntriesOf(errors, i)) = 1
             /\ RecordsOf(meetings, i) = <<>>
             /\ EntriesOf(perUserSummary, i) = <<>>)

\* Six users and five workers: the third worker has read a body that is no
\* JSON for the third user and waits for the recordings of the sixth.
C30_Witness ==
    /\ hpc = "fanout"
    /\ Len(users) > concurrency
    /\ served[3] = "non-json"
    /\ wi[3] = concurrency
    /\ wpc[3] = "fetch"
    /\ Len(EntriesOf(errors, 3)) = 1

C32_AttachKeepsRecords ==
    /\ [](apc = "returned" =>
             /\ Len(aresult) = Len(ainput)
             /\ \A k \in 1..Len(ainput) :
                   /\ DOMAIN aresult[k] = DOMAIN ainput[k] \cup {"hostName", "hostEmail"}
                   /\ \A f \in DOMAIN ainput[k] : aresult[k][f] = ainput[k][f])
    /\ [][ncalls' = ncalls => ainput' = ainput]_vars

\* Three meetings, two of one host and between them one without a host, come
\* back in their order.
C32_Witness ==
    /\ apc = "returned"
    /\ Len(ainput) = 3
    /\ Len(aresult) = 3
    /\ ainput[1].host_id = "h1"
    /\ ainput[2].host_id = ""
    /\ ainput[3].host_id = "h1"
    /\ aresult[1].uuid = <<0, 1>>
    /\ aresult[2].uuid = <<0, 2>>
    /\ aresult[2].hostName = "Unknown"
    /\ aresult[3].uuid = <<0, 3>>

\* The meetings of a list that name no host.
Hostless(ms) == {k \in 1..Len(ms) : ms[k].host_id = ""}

\* C33: no getHostInfo call for an empty host id waits for the network, and
\* hostCache holds no entry under the empty key; a call of
\* attachHostsToRecordings makes no more requests than its input names hosts
\* (none for a list of meetings without host), and every meeting without a
\* host comes back with hostName "Unknown" and hostEmail "".
C33_EmptyHostIdUnknown ==
    /\ "" \notin DOMAIN hostCache
    /\ \A c \in hcalls : c.host # ""
    /\ callFetches <= Cardinality(UniqueHostIds(ainput))
    /\ apc = "returned" =>
          \A k \in Hostless(ainput) :
              /\ aresult[k].hostName = "Unknown"
              /\ aresult[k].hostEmail = ""

\* A call with two meetings that name no host has returned, with a cache
\* that holds an entry from an earlier call, and has made no request.
C33_Witness ==
    /\ apc = "returned"
    /\ ncalls = 2
    /\ Len(ainput) = 2
    /\ Hostless(ainput) = {1, 2}
    /\ Len(aresult) = 2
    /\ callFetches = 0
    /\ DOMAIN hostCache = {"h1"}

\* A getZoomAccessToken call ends in this step.
TokenCallEnds == Cardinality(tcalls') < Cardinality(tcalls)

\* C34: a step changes cachedToken or cachedTokenExp only as the last step of
\* a call whose exchange succeeded, and that step writes both, the token and
\* the expiry of that one exchange; a call that ends in a failure leaves both
\* as they are; so, whatever calls overlap, the cache is cold or holds the
\* token of one exchange with the expiry computed from that exchange's
\* expires_in at a time that has passed.
C34_TokenAndExpiryTogether ==
    /\ [][(cachedToken' # cachedToken \/ cachedTokenExp' # cachedTokenExp) =>
             /\ TokenCallEnds
             /\ tlast'.kind = "stored"
             /\ \E c \in tcalls \ tcalls' :
                   /\ c.pc = "body"
                   /\ cachedToken' = TokenWritten(c.id, now).tok
                   /\ cachedTokenExp' = TokenWritten(c.id, now).exp]_vars
    /\ [][(TokenCallEnds /\ tlast'.kind # "stored") =>
             /\ cachedToken' = cachedToken
             /\ cachedTokenExp' = cachedTokenExp]_vars
    /\ [](\/ cachedToken = <<>> /\ cachedTokenExp = 0
          \/ \E k \in 1..tokenCalls :
                 /\ cachedToken = TokenWritten(k, 0).tok
                 /\ cachedTokenExp - TokenWritten(k, 0).exp \in 0..now)

\* Three calls missed the cache and overlapped; the first of them, begun on
\* the cold cache at time 0, was the last to store, some time later.
C34_Witness ==
    /\ tokenCalls = 3
    /\ tokenFetches = 3
    /\ tcalls = {}
    /\ now > 0
    /\ tlast.kind = "stored"
    /\ tlast.at = 0
    /\ cachedToken = <<"tok", 1>>
    /\ cachedTokenExp = now + 3600 * 1000

(* ---------------------------------------------------------------------- *)
(* Properties of the delete handlers and the download proxies (SpecProxy) *)
(* ---------------------------------------------------------------------- *)

\* A delete handler has answered to what the upstream returned for its
\* DELETE call.
DeleteAnswered == ppc = "responded" /\ response.kind = "delete"

\* The body the upstream returned is JSON with a Zoom error code or message.
NamesZoomError(text) == text.kind = "json" /\ (text.code # 0 \/ text.message # "")

ZoomDomain(h) == h = ZoomUs \/ EndsWith(h, <<".">> \o ZoomUs)

\* The `url` parameter of the download request names a Zoom domain.
ZoomTarget == req.kind = "url" /\ ZoomDomain(req.hostname)

\* C36: a download proxy asks for the account token, and sends it upstream,
\* only for a target whose host is zoom.us or a subdomain of zoom.us; for
\* every other target it answers 400 and has neither asked for the token nor
\* sent a request.
C36_DownloadsOnlyZoomDomains ==
    route \in {"phone-download", "meeting-download"} =>
        /\ (tokenCalls > 0 \/ sent # <<>>) => ZoomTarget
        /\ \A k \in 1..Len(sent) : ZoomDomain(sent[k].hostname)
        /\ (ppc = "responded" /\ ~ZoomTarget) =>
              /\ response.status = 400
              /\ tokenCalls = 0
              /\ sent = <<>>

(* ---------------------------------------------------------------------- *)
(* Property of the client's paging loops (checked under FairPaging)       *)
(* ---------------------------------------------------------------------- *)

\* The recordings of the pages 1..n of the listing, page after page.
RECURSIVE PagesUpTo(_, _, _)
PagesUpTo(n, held, of) ==
    IF n = 0 THEN <<>>
    ELSE PagesUpTo(n - 1, held, of)
         \o [j \in 1..Len(ApiPage(n, held).recordings) |->
                [id |-> ApiPage(n, held).recordings[j].id, source |-> of]]

\* The number of pages the loop reads of a listing of `held` pages under a
\* cap: all of them, or as many as the cap allows.
PagesRead(held, cap) == IF held = 0 \/ held > cap THEN cap ELSE held

\* C37: fetchAllPhoneRecordings sends at most 20 page requests and
\* fetchAllContactCenterRecordings at most 50; what they have collected is
\* at every moment the recordings of the pages read so far, in the order of
\* the pages; a call that returns has read the whole listing or as many pages
\* as its cap allows; and every call ends, by its return or by the exception
\* of a failed request, even when every page carries a next_page_token.
C37_PagingLoopsBounded ==
    /\ [](fetchAll.pc # "idle" =>
             /\ Len(fetchAll.asked) <= (IF fetchAll.of = "phone" THEN 20 ELSE 50)
             /\ fetchAll.loops <= Len(fetchAll.asked)
             /\ fetchAll.allRecs = PagesUpTo(fetchAll.loops, fetchAll.held, fetchAll.of)
             /\ fetchAll.pc = "returned" =>
                   fetchAll.loops = PagesRead(fetchAll.held,
                                              IF fetchAll.of = "phone" THEN 20 ELSE 50))
    /\ <>(fetchAll.pc \in {"returned", "threw"})

\* Every page of the contact-center listing carried a token; the call has
\* returned after fifty requests, with the 51 recordings of fifty pages.
C37_Witness ==
    /\ fetchAll.pc = "returned"
    /\ fetchAll.of = "cc"
    /\ fetchAll.held = 0
    /\ fetchAll.nextToken # <<>>
    /\ Len(fetchAll.asked) = MAX_CC_PAGES
    /\ fetchAll.loops = MAX_CC_PAGES
    /\ Len(fetchAll.allRecs) = 51

(* ---------------------------------------------------------------------- *)
(* Property of the client's bulk delete (checked under FairBulk)          *)
(* ---------------------------------------------------------------------- *)

\* The selected rows of the table, in the table's order.
RECURSIVE SelectedFrom(_, _)
SelectedFrom(k, b) ==
    IF k > Len(b.filteredRecordings) THEN <<>>
    ELSE (IF makeRecordKey(b.filteredRecordings[k], k - 1) \in b.selectedKeys
          THEN <<b.filteredRecordings[k]>> ELSE <<>>) \o SelectedFrom(k + 1, b)

\* The delete requests of the first n records of a list, in order: one for
\* each record that has the ids its endpoint needs.
RECURSIVE RequestsFor(_, _, _)
RequestsFor(recs, n, source) ==
    IF n = 0 THEN <<>>
    ELSE RequestsFor(recs, n - 1, source) \o
         (IF (IF source = "phone" THEN recs[n].id # <<>>
              ELSE recs[n].id # <<>> /\ recs[n].meetingId # <<>>)
          THEN <<[url |-> IF source = "phone" THEN "/api/phone/recordings/delete"
                          ELSE "/api/meeting/recordings/delete",
                  meetingId |-> IF source = "phone" THEN <<>> ELSE recs[n].meetingId,
                  recordingId |-> recs[n].id,
                  action |-> IF source = "phone" THEN "" ELSE "trash"]>>
          ELSE <<>>)

BulkRunning == bulk.pc \in {"loop", "await", "refresh", "done"}

\* C38: handleBulkDelete works through the selected records one at a time,
\* in the order of the table: while it runs, the records handled so far are
\* the first i of the selected ones, success + failed = i, the requests sent
\* are those of the first records in order (in the real mode; one more while
\* a delete is awaited, none for a record without its ids), and the progress
\* shows done = i of total = the number of selected records; a failure does
\* not end the loop: when the loop is over, i, done and success + failed are
\* the number of selected records and every record that has its ids has been
\* asked for; done only ever advances by one; and the deleting flag, once
\* set, is reset to false, and is false when the handler has ended.
C38_BulkDeleteIsolatesFailures ==
    /\ [](BulkRunning =>
            LET selected == SelectedFrom(1, bulk)
                asked == IF bulk.pc = "await" THEN bulk.i + 1 ELSE bulk.i IN
            /\ bulk.toDelete = selected
            /\ bulk.i <= Len(selected)
            /\ bulk.success + bulk.failed = bulk.i
            /\ bulk.calls = IF bulk.demoMode THEN <<>>
                            ELSE RequestsFor(selected, asked, bulk.source)
            /\ bulk.deleteProgress.shown =>
                  /\ bulk.deleteProgress.total = Len(selected)
                  /\ bulk.deleteProgress.done = bulk.i
            /\ bulk.pc \in {"refresh", "done"} =>
                  /\ bulk.i = Len(selected)
                  /\ bulk.success + bulk.failed = Len(selected)
            /\ bulk.deleting = (bulk.pc # "done")
            /\ bulk.pc # "done" => bulk.deleteProgress.shown)
    /\ [](bulk.pc \in {"idle", "returned"} => ~bulk.deleting)
    /\ [][bulk.deleteProgress.shown /\ bulk'.deleteProgress.shown =>
             /\ bulk'.deleteProgress.total = bulk.deleteProgress.total
             /\ bulk'.deleteProgress.done \in
                   {bulk.deleteProgress.done, bulk.deleteProgress.done + 1}]_vars
    /\ [](bulk.deleting => <>(bulk.pc = "done" /\ ~bulk.deleting))

\* Three records were selected; the first has no id and failed without a
\* request, the second was refused by the server, the third was deleted;
\* the handler has ended.
C38_Witness ==
    /\ bulk.pc = "done"
    /\ ~bulk.demoMode
    /\ Len(bulk.toDelete) = 3
    /\ bulk.toDelete[1].id = <<>>
    /\ Len(bulk.calls) = 2
    /\ bulk.failed = 2
    /\ bulk.success = 1
    /\ ~bulk.deleting

====
